---- MODULE Spec2Model ----
(***************************************************************************)
(* Verification model of gomlx/go-huggingface: the safetensors reader and  *)
(* model (header parsing, mmap reads, sharded iteration) and the GGUF      *)
(* reader (Open, alignment, tensor read dispatch).                         *)
(***************************************************************************)
EXTENDS Integers, Sequences, FiniteSets, TLC

\* ------------------------------------------------------------------ bounds
\* Largest data_offsets[0] (in bytes) drawn for a tensor of a shard.
MaxOffset == 1
\* Largest byte value drawn for the payload of a file.
MaxByte == 1
\* Largest number of single-tensor reads (GetTensor) of one run.
MaxGets == 1
\* Byte length of the JSON header of the files drawn.
HeaderLen == 64
\* Largest data_offsets[0], largest data_offsets span and largest data
\* region (in bytes) drawn for the file of a single ReadTensor.
MaxStart == 2
MaxSpan == 8
MaxData == 8
\* Largest number of files the repo listing of a Load holds.
MaxListing == 3
\* Largest number of key-value pairs and of tensor infos a GGUF file holds.
MaxKVs == 2
MaxTensors == 2
\* Largest rank and largest dimension of the shapes whose elements are counted.
MaxDims == 3
MaxDim == 3
MaxText == 2
MaxWords == 2
MaxAdded == 2
MaxWordLen == 3
MaxIDs == 3

\* ------------------------------------------------------- program constants
MaxHeaderSize == 104857600

\* The nil pointer / absent value of a record-valued field.
Nil == [nil |-> TRUE]
Unset == "unset"
NoErr == "none"

\* ------------------------------------------------------------ file names
\* A file name is a path: a sequence of components, each a stem and an
\* extension (the suffix from the last dot of the component on).
Comp(stem, ext) == [stem |-> stem, ext |-> ext]

Ext(p) == p[Len(p)].ext

Base(p) == <<p[Len(p)]>>

Shard1 == <<Comp("model-00001-of-00002", ".safetensors")>>
Shard2 == <<Comp("model-00002-of-00002", ".safetensors")>>
Shards == {Shard1, Shard2}

TensorNames == {"a", "b", "c"}

Range(f) == {f[x] : x \in DOMAIN f}

Perms(S) == {s \in [1..Cardinality(S) -> S] : \A i, j \in DOMAIN s : s[i] = s[j] => i = j}

RECURSIVE Product(_)
Product(shape) == IF shape = <<>> THEN 1 ELSE Head(shape) * Product(Tail(shape))

\* binary.Read(f, binary.LittleEndian, &headerSize): the value of the 8
\* size bytes. Values of 7 * 2^24 and more (all above the 100 MiB limit of
\* parseHeader) are reported as HugeSize, to stay within the integers of the
\* checker.
HugeSize == 7 * 16777216

LEUint64(bytes) ==
    IF bytes[4] >= 7 \/ \E i \in 5..8 : bytes[i] # 0 THEN HugeSize
    ELSE bytes[1] + 256 * (bytes[2] + 256 * (bytes[3] + 256 * bytes[4]))

\* ------------------------------------------------- safetensors file image
\* A .safetensors file: the 8 size bytes, a JSON header of hlen bytes
\* (wellformed or not, holding the tensors map), and the data bytes.
HeaderByte == 123

FileLen(f) == 8 + f.hlen + Len(f.data)

\* The byte of the file at absolute offset off (0-based).
FileByteAt(f, off) ==
    IF off < 8 THEN f.sizeBytes[off + 1]
    ELSE IF off < 8 + f.hlen THEN HeaderByte
    ELSE f.data[off - 8 - f.hlen + 1]

DTypeNames == {"F32", "I16", "U8"}

DTypeSize(dtype) == CASE dtype = "F32" -> 4 [] dtype = "I16" -> 2 [] dtype = "U8" -> 1

dtypeToGoMLX(stDtype) ==
    IF stDtype \in DTypeNames THEN [err |-> NoErr, dtype |-> stDtype]
    ELSE [err |-> "dtype_not_supported", dtype |-> "invalid"]

\* Mutant of parseHeader: the data offset forgets the 8 size bytes.
parseHeader_NoSizePrefix(f) ==
    LET headerSize == LEUint64(f.sizeBytes) IN
    IF headerSize > MaxHeaderSize
        THEN [err |-> "header_too_large", header |-> Nil, dataOffset |-> 0]
    ELSE IF 8 + headerSize > FileLen(f)
        THEN [err |-> "read_header", header |-> Nil, dataOffset |-> 0]
    ELSE IF headerSize # f.hlen \/ ~f.json
        THEN [err |-> "malformed_json", header |-> Nil, dataOffset |-> 0]
    ELSE [err |-> NoErr, header |-> [Tensors |-> f.tensors], dataOffset |-> headerSize]

parseHeader(f) ==
    LET headerSize == LEUint64(f.sizeBytes) IN
    IF headerSize > MaxHeaderSize
        THEN [err |-> "header_too_large", header |-> Nil, dataOffset |-> 0]
    ELSE IF 8 + headerSize > FileLen(f)
        THEN [err |-> "read_header", header |-> Nil, dataOffset |-> 0]
    ELSE IF headerSize # f.hlen \/ ~f.json
        THEN [err |-> "malformed_json", header |-> Nil, dataOffset |-> 0]
    ELSE [err |-> NoErr, header |-> [Tensors |-> f.tensors], dataOffset |-> 8 + headerSize]

\* mmap.ReaderAt.ReadAt(p, off) with len(p) = n: the bytes copied and the error.
MMapReadAt(f, n, off) ==
    IF off < 0 \/ FileLen(f) < off THEN [err |-> "invalid_offset", bytes |-> <<>>]
    ELSE LET avail == FileLen(f) - off
             k == IF avail < n THEN avail ELSE n
         IN [err |-> IF k < n THEN "EOF" ELSE NoErr,
             bytes |-> [i \in 1..k |-> FileByteAt(f, off + i - 1)]]

\* MMapReader.ReadTensor of package safetensors: reader is the open mapping
\* (file, dataOffset, Header).
ReadTensor(reader, tensorName) ==
    IF tensorName \notin DOMAIN reader.Header.Tensors
        THEN [err |-> "tensor_not_found", bytes |-> <<>>]
    ELSE
    LET meta == reader.Header.Tensors[tensorName]
        dt == dtypeToGoMLX(meta.Dtype)
    IN  IF dt.err # NoErr THEN [err |-> dt.err, bytes |-> <<>>]
        ELSE
        LET size == Product(meta.Shape)
            bufLen == size * DTypeSize(dt.dtype)
            tensorOffset == reader.dataOffset + meta.DataOffsets[1]
            expectedBytes == size * DTypeSize(dt.dtype)
        IN  IF bufLen # expectedBytes THEN [err |-> "size_mismatch", bytes |-> <<>>]
            ELSE LET rd == MMapReadAt(reader.file, bufLen, tensorOffset)
                 IN IF rd.err # NoErr THEN [err |-> rd.err, bytes |-> <<>>]
                    ELSE [err |-> NoErr, bytes |-> rd.bytes]


\* ---------------------------------------------------------- GGUF file image
\* A .gguf file: magic, version, the key-value pairs and tensor infos as
\* written (the two counts are their lengths), then the padding and tensor
\* data. len is the length of the file in bytes; a len below the header's
\* size is a truncated file.
ggufMagic == "GGUF"
defaultAlignment == 32
minSupportedVersion == 2
MaxStringLen == 1048576

valueTypeUint8 == 0
valueTypeInt8 == 1
valueTypeUint16 == 2
valueTypeInt16 == 3
valueTypeUint32 == 4
valueTypeInt32 == 5
valueTypeFloat32 == 6
valueTypeBool == 7
valueTypeString == 8
valueTypeArray == 9
valueTypeUint64 == 10
valueTypeInt64 == 11
valueTypeFloat64 == 12

IntegerValueTypes ==
    {valueTypeUint8, valueTypeInt8, valueTypeUint16, valueTypeInt16,
     valueTypeUint32, valueTypeInt32, valueTypeUint64, valueTypeInt64}

NumericValueTypes == IntegerValueTypes \cup {valueTypeFloat32, valueTypeFloat64}

\* Bytes binary.Read consumes for a fixed-size value of the type.
ScalarSize(vtype) ==
    CASE vtype \in {valueTypeUint8, valueTypeInt8, valueTypeBool} -> 1
      [] vtype \in {valueTypeUint16, valueTypeInt16} -> 2
      [] vtype \in {valueTypeUint32, valueTypeInt32, valueTypeFloat32} -> 4
      [] vtype \in {valueTypeUint64, valueTypeInt64, valueTypeFloat64} -> 8

\* The byte of the file at absolute offset off (0-based).
GGUFByteAt(f, off) == (f.seed + off) % 256

\* binary.Read of n bytes at position pos of a file of flen bytes.
ReadFixed(pos, n, flen) ==
    IF pos + n > flen THEN [err |-> "unexpected_eof", pos |-> pos]
    ELSE [err |-> NoErr, pos |-> pos + n]

\* readString: u64 length, then the bytes.
readString(s, pos, flen) ==
    LET l == ReadFixed(pos, 8, flen) IN
    IF l.err # NoErr THEN [err |-> "read_string_length", pos |-> l.pos]
    ELSE IF Len(s) > MaxStringLen THEN [err |-> "string_too_long", pos |-> l.pos]
    ELSE LET b == ReadFixed(l.pos, Len(s), flen) IN
         IF b.err # NoErr THEN [err |-> "read_string_data", pos |-> b.pos]
         ELSE [err |-> NoErr, pos |-> b.pos]

\* readStringArray: the strings one after the other.
RECURSIVE readStringArray(_, _, _)
readStringArray(elems, pos, flen) ==
    IF elems = <<>> THEN [err |-> NoErr, pos |-> pos]
    ELSE LET s == readString(Head(elems), pos, flen) IN
         IF s.err # NoErr THEN s ELSE readStringArray(Tail(elems), s.pos, flen)

\* readArray: u32 element type, u64 count, then the elements. v is the array
\* as written: its element type, its count, and its strings (strs) when it
\* is an array of strings.
readArray(v, pos, flen) ==
    LET et == ReadFixed(pos, 4, flen) IN
    IF et.err # NoErr THEN [err |-> "read_array_element_type", pos |-> et.pos]
    ELSE LET cnt == ReadFixed(et.pos, 8, flen) IN
    IF cnt.err # NoErr THEN [err |-> "read_array_count", pos |-> cnt.pos]
    ELSE IF v.elemType \in NumericValueTypes \cup {valueTypeBool}
        THEN LET e == ReadFixed(cnt.pos, v.count * ScalarSize(v.elemType), flen) IN
             IF e.err # NoErr THEN [err |-> "read_array_element", pos |-> e.pos] ELSE e
    ELSE IF v.elemType = valueTypeString
        THEN readStringArray(v.strs, cnt.pos, flen)
    ELSE [err |-> "unsupported_array_element_type", pos |-> cnt.pos]

\* readValue: v is the value as written: its type tag, and num (a number),
\* str (a string) or the array fields, by type.
readValue(v, pos, flen) ==
    IF v.type \in NumericValueTypes \cup {valueTypeBool}
        THEN ReadFixed(pos, ScalarSize(v.type), flen)
    ELSE IF v.type = valueTypeString THEN readString(v.str, pos, flen)
    ELSE IF v.type = valueTypeArray THEN readArray(v, pos, flen)
    ELSE [err |-> "unknown_value_type", pos |-> pos]

\* readKeyValue: key string, u32 type tag, value.
readKeyValue(kv, pos, flen) ==
    LET k == readString(kv.Key, pos, flen) IN
    IF k.err # NoErr THEN [err |-> "read_key", pos |-> k.pos]
    ELSE LET t == ReadFixed(k.pos, 4, flen) IN
    IF t.err # NoErr THEN [err |-> "read_value_type", pos |-> t.pos]
    ELSE LET val == readValue(kv.Value, t.pos, flen) IN
    IF val.err # NoErr THEN [err |-> "read_value", pos |-> val.pos]
    ELSE [err |-> NoErr, pos |-> val.pos]

\* The loop of Open over the key-value pairs.
RECURSIVE readKeyValues(_, _, _)
readKeyValues(kvs, pos, flen) ==
    IF kvs = <<>> THEN [err |-> NoErr, pos |-> pos]
    ELSE LET kv == readKeyValue(Head(kvs), pos, flen) IN
         IF kv.err # NoErr THEN [err |-> "read_kv_pair", pos |-> kv.pos]
         ELSE readKeyValues(Tail(kvs), kv.pos, flen)

\* readTensorInfo: name string, u32 dims count, u64 dims, u32 type, u64 offset.
readTensorInfo(ti, pos, flen) ==
    LET n == readString(ti.Name, pos, flen) IN
    IF n.err # NoErr THEN [err |-> "read_tensor_name", pos |-> n.pos]
    ELSE LET rest == ReadFixed(n.pos, 4 + 8 * Len(ti.Shape) + 4 + 8, flen) IN
    IF rest.err # NoErr THEN [err |-> "read_tensor_fields", pos |-> rest.pos]
    ELSE rest

\* The loop of Open over the tensor infos.
RECURSIVE readTensorInfos(_, _, _)
readTensorInfos(tis, pos, flen) ==
    IF tis = <<>> THEN [err |-> NoErr, pos |-> pos]
    ELSE LET ti == readTensorInfo(Head(tis), pos, flen) IN
         IF ti.err # NoErr THEN [err |-> "read_tensor_info", pos |-> ti.pos]
         ELSE readTensorInfos(Tail(tis), ti.pos, flen)

\* Value.Uint of a parsed value (for the non-negative values drawn here).
Uint(v) == IF v.type \in IntegerValueTypes THEN v.num ELSE 0

\* File.getKV: the lookup in the kvByKey map (a nil map has no key).
getKV(file, key) ==
    IF key \in DOMAIN file.kvByKey
        THEN [ok |-> TRUE, kv |-> file.KeyValues[file.kvByKey[key]]]
        ELSE [ok |-> FALSE, kv |-> Nil]

\* The index an "m[x.name] = &x" loop over a slice builds: name -> position
\* of the last entry with that name.
IndexBy(names) ==
    [k \in Range(names) |-> CHOOSE i \in DOMAIN names :
        names[i] = k /\ \A j \in DOMAIN names : names[j] = k => j <= i]

\* The aligned data offset Open computes from the raw header end.
AlignUp(offset, alignment) == offset + ((alignment - (offset % alignment)) % alignment)

\* Open: parses the file image f; the error, and the File on success.
Open(f) ==
    LET flen == f.len
        magic == ReadFixed(0, 4, flen)
        version == ReadFixed(4, 4, flen)
        counts == ReadFixed(8, 16, flen)
    IN
    IF magic.err # NoErr THEN [err |-> "read_magic", file |-> Nil]
    ELSE IF f.magic # ggufMagic THEN [err |-> "invalid_magic", file |-> Nil]
    ELSE IF version.err # NoErr THEN [err |-> "read_version", file |-> Nil]
    ELSE IF f.Version < minSupportedVersion THEN [err |-> "unsupported_version", file |-> Nil]
    ELSE IF counts.err # NoErr THEN [err |-> "read_counts", file |-> Nil]
    ELSE LET kvs == readKeyValues(f.kvs, counts.pos, flen) IN
    IF kvs.err # NoErr THEN [err |-> kvs.err, file |-> Nil]
    ELSE LET tis == readTensorInfos(f.tensors, kvs.pos, flen) IN
    IF tis.err # NoErr THEN [err |-> tis.err, file |-> Nil]
    ELSE
    LET file == [Version |-> f.Version,
                 KeyValues |-> [i \in DOMAIN f.kvs |-> [Key |-> f.kvs[i].Key, Value |-> f.kvs[i].Value]],
                 TensorInfos |-> f.tensors,
                 kvByKey |-> <<>>,
                 tensorByName |-> <<>>]
        kv == getKV(file, "general.alignment")
        Alignment == IF kv.ok /\ Uint(kv.kv.Value) > 0 THEN Uint(kv.kv.Value) ELSE defaultAlignment
    IN [err |-> NoErr,
        file |-> [Version |-> file.Version,
                  Alignment |-> Alignment,
                  KeyValues |-> file.KeyValues,
                  TensorInfos |-> file.TensorInfos,
                  kvByKey |-> IndexBy([i \in DOMAIN file.KeyValues |-> file.KeyValues[i].Key]),
                  tensorByName |-> IndexBy([i \in DOMAIN file.TensorInfos |-> file.TensorInfos[i].Name]),
                  dataOffset |-> AlignUp(tis.pos, Alignment)]]

\* ------------------------------------------------------- GGUF tensor types
TensorTypeF32 == 0
TensorTypeF16 == 1
TensorTypeQ4_0 == 2
TensorTypeQ4_1 == 3
TensorTypeQ5_0 == 6
TensorTypeQ5_1 == 7
TensorTypeQ8_0 == 8
TensorTypeQ8_1 == 9
TensorTypeQ2_K == 10
TensorTypeQ3_K == 11
TensorTypeQ4_K == 12
TensorTypeQ5_K == 13
TensorTypeQ6_K == 14
TensorTypeI8 == 24
TensorTypeIQ4_NL == 20
\* A type tag no constant of the package names.
TensorTypeUnknown == 99

NativeTypes == {TensorTypeF32, TensorTypeF16, TensorTypeI8}

\* TensorType.BlockSize, for the types drawn here.
BlockSize(t) ==
    CASE t \in NativeTypes -> 1
      [] t \in {TensorTypeQ4_0, TensorTypeQ4_1, TensorTypeQ5_0, TensorTypeQ5_1,
                TensorTypeQ8_0, TensorTypeQ8_1, TensorTypeIQ4_NL} -> 32
      [] t \in {TensorTypeQ2_K, TensorTypeQ3_K, TensorTypeQ4_K, TensorTypeQ5_K,
                TensorTypeQ6_K} -> 256
      [] OTHER -> 0

\* TensorType.TypeSize, for the types drawn here.
TypeSize(t) ==
    CASE t = TensorTypeF32 -> 4
      [] t = TensorTypeF16 -> 2
      [] t = TensorTypeI8 -> 1
      [] t = TensorTypeQ4_0 -> 2 + 32 \div 2
      [] t = TensorTypeQ4_1 -> 2 + 2 + 32 \div 2
      [] t = TensorTypeQ5_0 -> 2 + 4 + 32 \div 2
      [] t = TensorTypeQ5_1 -> 2 + 2 + 4 + 32 \div 2
      [] t = TensorTypeQ8_0 -> 2 + 32
      [] t = TensorTypeQ8_1 -> 2 + 2 + 32
      [] t = TensorTypeQ2_K -> 256 \div 4 + 256 \div 16 + 2 + 2
      [] t = TensorTypeQ3_K -> 256 \div 4 + 256 \div 8 + 12 + 2
      [] t = TensorTypeQ4_K -> 2 + 2 + 12 + 256 \div 2
      [] t = TensorTypeQ5_K -> 2 + 2 + 12 + 256 \div 2 + 256 \div 8
      [] t = TensorTypeQ6_K -> 256 \div 2 + 256 \div 4 + 256 \div 16 + 2
      [] t = TensorTypeIQ4_NL -> 2 + 32 \div 2
      [] OTHER -> 0

IsQuantized(t) == t \notin NativeTypes

\* Bytes of one element of the GoMLX dtype of the type (Float32 for every
\* quantized type).
GoMLXDTypeSize(t) == IF t \in NativeTypes THEN TypeSize(t) ELSE 4

\* Mutant of getDequantFunc: every type has a dequantizer.
getDequantFunc_AnyType(t) == [err |-> NoErr]

\* The types getDequantFunc has a dequantizer for.
DequantTypes ==
    {TensorTypeQ8_0, TensorTypeQ4_0, TensorTypeQ4_1, TensorTypeQ5_0, TensorTypeQ5_1,
     TensorTypeQ2_K, TensorTypeQ3_K, TensorTypeQ4_K, TensorTypeQ5_K, TensorTypeQ6_K}

\* getDequantFunc: the types with a dequantizer.
getDequantFunc(t) ==
    IF t \in DequantTypes THEN [err |-> NoErr]
    ELSE [err |-> "unsupported_quant"]

NumElements(ti) == IF Len(ti.Shape) = 0 THEN 0 ELSE Product(ti.Shape)

NumBytes(ti) ==
    LET bs == BlockSize(ti.Type)
        ts == TypeSize(ti.Type)
    IN IF bs = 0 \/ ts = 0 THEN 0 ELSE (NumElements(ti) \div bs) * ts

Reverse(s) == [i \in DOMAIN s |-> s[Len(s) + 1 - i]]

\* TensorInfo.GoMLXShape: the dimensions, outermost first.
GoMLXShape(ti) == Reverse(ti.Shape)

\* mmap.ReaderAt.ReadAt(p, off) on the .gguf file, with len(p) = n.
GGUFReadAt(f, n, off) ==
    IF off < 0 \/ f.len < off THEN [err |-> "invalid_offset", bytes |-> <<>>]
    ELSE LET avail == f.len - off
             k == IF avail < n THEN avail ELSE n
         IN [err |-> IF k < n THEN "EOF" ELSE NoErr,
             bytes |-> [i \in 1..k |-> GGUFByteAt(f, off + i - 1)]]

Zeros(n) == [i \in 1..n |-> 0]

\* MMapReader.ReadTensor of package gguf. mr is the reader: the mapped file
\* image, the File and its data offset. bytes is the tensor memory of a
\* native tensor; dequantized is the number of float32 outputs written.
GGUFReadTensor(mr, tensorName) ==
    IF tensorName \notin DOMAIN mr.file.tensorByName
        THEN [err |-> "tensor_not_found", bytes |-> <<>>, elements |-> 0, dequantized |-> 0]
    ELSE
    LET info == mr.file.TensorInfos[mr.file.tensorByName[tensorName]]
        dims == GoMLXShape(info)
        size == Product(dims)
        tensorOffset == mr.dataOffset + info.Offset
    IN
    IF ~IsQuantized(info.Type)
        THEN LET rd == GGUFReadAt(mr.image, size * GoMLXDTypeSize(info.Type), tensorOffset)
                 readErr == IF rd.err = "EOF" THEN NoErr ELSE rd.err
             IN IF readErr # NoErr
                   THEN [err |-> readErr, bytes |-> <<>>, elements |-> 0, dequantized |-> 0]
                   ELSE [err |-> NoErr,
                         bytes |-> rd.bytes \o Zeros(size * GoMLXDTypeSize(info.Type) - Len(rd.bytes)),
                         elements |-> size, dequantized |-> 0]
    ELSE
    LET dequant == getDequantFunc(info.Type) IN
    IF dequant.err # NoErr
        THEN [err |-> dequant.err, bytes |-> <<>>, elements |-> 0, dequantized |-> 0]
    ELSE
    LET rawSize == NumBytes(info)
        rd == GGUFReadAt(mr.image, rawSize, tensorOffset)
        blockSize == BlockSize(info.Type)
        nElements == NumElements(info)
    IN
    IF rd.err \notin {NoErr, "EOF"}
        THEN [err |-> rd.err, bytes |-> <<>>, elements |-> 0, dequantized |-> 0]
    ELSE IF size # nElements
        THEN [err |-> "dequant", bytes |-> <<>>, elements |-> 0, dequantized |-> 0]
    ELSE [err |-> NoErr, bytes |-> <<>>, elements |-> size,
          dequantized |-> (nElements \div blockSize) * blockSize]

\* MMapReader.ReadTensorRaw of package gguf.
GGUFReadTensorRaw(mr, tensorName) ==
    IF tensorName \notin DOMAIN mr.file.tensorByName
        THEN [err |-> "tensor_not_found", bytes |-> <<>>, elements |-> 0, dequantized |-> 0]
    ELSE
    LET info == mr.file.TensorInfos[mr.file.tensorByName[tensorName]]
        rawSize == NumBytes(info)
        tensorOffset == mr.dataOffset + info.Offset
        rd == GGUFReadAt(mr.image, rawSize, tensorOffset)
    IN IF rd.err \notin {NoErr, "EOF"}
          THEN [err |-> rd.err, bytes |-> <<>>, elements |-> 0, dequantized |-> 0]
          ELSE [err |-> NoErr, bytes |-> rd.bytes \o Zeros(rawSize - Len(rd.bytes)),
                elements |-> NumElements(info), dequantized |-> 0]


\* ------------------------------------------------------------------ state
VARIABLES
    impl,       \* which package's Model is exercised
    listing,    \* hub repo: the file names IterFileNames yields, in order
    repoFiles,  \* hub repo: file name -> content of the file
    Index,      \* Model.Index (Nil until loaded), a record with WeightMap
    IndexFile,  \* Model.IndexFile
    Headers,    \* Model.Headers: file name -> parsed header
    loadErr,    \* result of the last Load (Nil when none ran)
    pc,         \* position of the IterTensors iterator
    pending,    \* shards of shardToTensors not yet processed
    cur,        \* the open reader of the shard being processed (or Nil)
    queue,      \* sortedTensors still to read of the current shard
    yielded,    \* the (name, file) pairs yielded so far without error
    iterErr,    \* the error yielded by the iterator (NoErr when none)
    stopped,    \* the consumer returned false from yield
    iterOpen,   \* file -> number of mappings the iterator holds open
    openCount,  \* file -> number of mappings the iterator opened so far
    getOpen,    \* file -> number of mappings single-tensor reads left open
    getRes,     \* result of the last single-tensor read (Nil when none)
    getCount,   \* number of single-tensor reads made
    rdIn,       \* input of the call under test (a reader and tensor name, a shape, ...)
    rdRes,      \* its result (Nil before the call)
    gg,         \* GGUF: the file image on disk
    ggFile,     \* GGUF: the parsed File (Nil before Open)
    ggErr,      \* GGUF: error of Open
    ggRes,      \* GGUF: result of the last tensor read
    ggOpen,     \* GGUF: number of mappings the iterator holds open
    ggOpenCount \* GGUF: number of mappings the iterator opened so far

vars == <<impl, listing, repoFiles, Index, IndexFile, Headers, loadErr, pc, pending, cur,
          queue, yielded, iterErr, stopped, iterOpen, openCount, getOpen, getRes, getCount,
          rdIn, rdRes, gg, ggFile, ggErr, ggRes, ggOpen, ggOpenCount>>

repoVars == <<listing, repoFiles>>
modelVars == <<Index, IndexFile, Headers, loadErr>>
iterVars == <<pc, pending, cur, queue, yielded, iterErr, stopped, iterOpen, openCount>>
getVars == <<getOpen, getRes, getCount>>
readVars == <<rdIn, rdRes>>
ggufVars == <<gg, ggFile, ggErr, ggRes, ggOpen, ggOpenCount>>

\* --------------------------------------------------------------- hub repo
SnapshotDir == <<Comp("snapshots", ""), Comp("commit", "")>>

\* Repo.DownloadFile: the local path in the cache's snapshot directory.
DownloadFile(fileName) ==
    IF fileName \in DOMAIN repoFiles
        THEN [err |-> NoErr, localPath |-> SnapshotDir \o fileName]
        ELSE [err |-> "download", localPath |-> <<>>]

\* The content found at a local path of the cache.
LocalFile(localPath) == repoFiles[SubSeq(localPath, Len(SnapshotDir) + 1, Len(localPath))]

\* Model.NewMMapReader of package safetensors.
NewMMapReader(fileName) ==
    LET dl == DownloadFile(fileName) IN
    IF dl.err # NoErr THEN [err |-> "download", reader |-> Nil]
    ELSE LET f == LocalFile(dl.localPath)
             ph == parseHeader(f)
         IN IF ph.err # NoErr THEN [err |-> "parse_header", reader |-> Nil]
            ELSE IF ~f.mappable THEN [err |-> "mmap", reader |-> Nil]
            ELSE [err |-> NoErr,
                  reader |-> [name |-> fileName, file |-> f, dataOffset |-> ph.dataOffset,
                              Header |-> ph.header]]

\* Mutant of sortTensorsByOffset: the names are filtered but never sorted.
sortTensorsByOffset_Unsorted(tensorNames, header) ==
    Perms({n \in tensorNames : n \in DOMAIN header.Tensors})

\* sortTensorsByOffset: the orders the unstable sort can return for the
\* names of a bucket (the bucket's own order comes from a map iteration).
sortTensorsByOffset(tensorNames, header) ==
    LET kept == {n \in tensorNames : n \in DOMAIN header.Tensors}
    IN {s \in Perms(kept) :
           \A i, j \in DOMAIN s :
               i < j => header.Tensors[s[i]].DataOffsets[1] <= header.Tensors[s[j]].DataOffsets[1]}

NotLoaded == Index = Nil \/ DOMAIN Index.WeightMap = {}

shardToTensors(fileName) == {n \in DOMAIN Index.WeightMap : Index.WeightMap[n] = fileName}

ZeroCount == [f \in Shards |-> 0]

\* ----------------------------------------- Model.IterTensors (safetensors)
\* Entry of the iterator: the not-loaded check and the bucketing by shard.
IterStart ==
    /\ pc = "idle"
    /\ impl = "safetensors"
    /\ IF NotLoaded
          THEN /\ iterErr' = "not_loaded"
               /\ pc' = "done"
               /\ pending' = {}
          ELSE /\ iterErr' = NoErr
               /\ pc' = "next"
               /\ pending' = Range(Index.WeightMap)
    /\ UNCHANGED <<cur, queue, yielded, stopped, iterOpen, openCount>>
    /\ UNCHANGED <<impl, repoVars, modelVars, getVars, readVars, ggufVars>>

\* Mutant of CloseReader: the mapping stays open.
CloseReader_Leak(fileName) == iterOpen

\* reader.Close() of the iterator's reader.
CloseReader(fileName) == [iterOpen EXCEPT ![fileName] = @ - 1]

\* Top of the loop over shards: open the next shard's reader and sort its
\* tensors, or finish when every shard is done.
IterOpenShard ==
    /\ pc = "next"
    /\ impl = "safetensors"
    /\ IF pending = {}
          THEN /\ pc' = "done"
               /\ UNCHANGED <<pending, cur, queue, iterErr, iterOpen, openCount>>
          ELSE \E fileName \in pending :
               LET r == NewMMapReader(fileName) IN
               /\ pending' = pending \ {fileName}
               /\ IF r.err # NoErr
                     THEN /\ iterErr' = r.err
                          /\ pc' = "done"
                          /\ UNCHANGED <<cur, queue, iterOpen, openCount>>
                     ELSE /\ cur' = r.reader
                          /\ iterOpen' = [iterOpen EXCEPT ![fileName] = @ + 1]
                          /\ openCount' = [openCount EXCEPT ![fileName] = @ + 1]
                          /\ queue' \in sortTensorsByOffset(shardToTensors(fileName), r.reader.Header)
                          /\ pc' = "read"
                          /\ UNCHANGED iterErr
    /\ UNCHANGED <<yielded, stopped>>
    /\ UNCHANGED <<impl, repoVars, modelVars, getVars, readVars, ggufVars>>

\* One turn of the loop over the sorted tensors of the open shard: read,
\* yield, and close the reader on error, on a stop and at the end.
IterReadNext ==
    /\ pc = "read"
    /\ impl = "safetensors"
    /\ IF queue = <<>>
          THEN /\ iterOpen' = CloseReader(cur.name)
               /\ cur' = Nil
               /\ pc' = "next"
               /\ UNCHANGED <<queue, yielded, iterErr, stopped>>
          ELSE LET t == ReadTensor(cur, Head(queue)) IN
               IF t.err # NoErr
                  THEN /\ iterOpen' = CloseReader(cur.name)
                       /\ iterErr' = t.err
                       /\ pc' = "done"
                       /\ cur' = Nil
                       /\ UNCHANGED <<queue, yielded, stopped>>
                  ELSE /\ yielded' = Append(yielded, [name |-> Head(queue), file |-> cur.name,
                                                      offset |-> cur.Header.Tensors[Head(queue)].DataOffsets[1]])
                       /\ \E continue \in BOOLEAN :
                            IF continue
                               THEN /\ queue' = Tail(queue)
                                    /\ UNCHANGED <<pc, cur, iterOpen, stopped>>
                               ELSE /\ iterOpen' = CloseReader(cur.name)
                                    /\ stopped' = TRUE
                                    /\ pc' = "done"
                                    /\ cur' = Nil
                                    /\ UNCHANGED queue
                       /\ UNCHANGED iterErr
    /\ UNCHANGED <<pending, openCount>>
    /\ UNCHANGED <<impl, repoVars, modelVars, getVars, readVars, ggufVars>>

\* Model.GetTensorFilename
GetTensorFilename(tensorName) ==
    IF Index = Nil THEN [err |-> "panic_nil_index", filename |-> <<>>]
    ELSE IF tensorName \in DOMAIN Index.WeightMap
        THEN [err |-> NoErr, filename |-> Index.WeightMap[tensorName]]
        ELSE [err |-> "not_in_weight_map", filename |-> <<>>]

\* Model.GetTensorFromFile: the result and the reader it opened (if any).
GetTensorFromFile(fileName, tensorName) ==
    IF NotLoaded THEN [err |-> "not_loaded", bytes |-> <<>>, opened |-> FALSE]
    ELSE LET r == NewMMapReader(fileName) IN
         IF r.err # NoErr THEN [err |-> r.err, bytes |-> <<>>, opened |-> FALSE]
         ELSE LET t == ReadTensor(r.reader, tensorName)
              IN [err |-> t.err, bytes |-> t.bytes, opened |-> TRUE]

\* Model.GetTensor of package safetensors, on a loaded model.
GetTensor ==
    /\ impl = "safetensors"
    /\ pc = "idle"
    /\ getCount < MaxGets
    /\ \E tensorName \in TensorNames :
         LET fn == GetTensorFilename(tensorName) IN
         IF fn.err # NoErr
            THEN /\ getRes' = [name |-> tensorName, err |-> fn.err, bytes |-> <<>>]
                 /\ UNCHANGED getOpen
            ELSE LET g == GetTensorFromFile(fn.filename, tensorName) IN
                 /\ getRes' = [name |-> tensorName, err |-> g.err, bytes |-> g.bytes]
                 /\ getOpen' = IF g.opened THEN [getOpen EXCEPT ![fn.filename] = @ + 1]
                                           ELSE getOpen
    /\ getCount' = getCount + 1
    /\ UNCHANGED <<impl, repoVars, modelVars, iterVars, readVars, ggufVars>>


\* ------------------------------------------------------------ initial states
NoShard == <<>>

IndexName == <<Comp("model.safetensors.index", ".json")>>

\* The 8 little-endian bytes of n.
RECURSIVE LEBytesOf(_, _)
LEBytesOf(n, k) == IF k = 0 THEN <<>> ELSE <<n % 256>> \o LEBytesOf(n \div 256, k - 1)

LEBytes(n) == LEBytesOf(n, 8)

TensorMeta(dtype, shape, start, end) ==
    [Dtype |-> dtype, Shape |-> shape, DataOffsets |-> <<start, end>>]

\* A shard holding the given tensor names, one U8 element each at starts[n].
ShardFile(names, starts, kind) ==
    [sizeBytes |-> LEBytes(HeaderLen),
     hlen |-> HeaderLen,
     json |-> kind # "malformed",
     mappable |-> kind # "unmappable",
     tensors |-> [n \in names |-> TensorMeta("U8", <<1>>, starts[n], starts[n] + 1)],
     data |-> IF kind = "short" THEN <<>> ELSE [i \in 1..(MaxOffset + 1) |-> i % (MaxByte + 1)]]

BadKinds == {"absent", "malformed", "unmappable", "short"}

ModelIdle ==
    /\ pc = "idle"
    /\ pending = {}
    /\ cur = Nil
    /\ queue = <<>>
    /\ yielded = <<>>
    /\ iterErr = NoErr
    /\ stopped = FALSE
    /\ iterOpen = ZeroCount
    /\ openCount = ZeroCount
    /\ getOpen = ZeroCount
    /\ getRes = Nil
    /\ getCount = 0

ReadIdle == rdIn = Nil /\ rdRes = Nil

GGUFIdle ==
    /\ gg = Nil /\ ggFile = Nil /\ ggErr = Unset /\ ggRes = Nil
    /\ ggOpen = 0 /\ ggOpenCount = 0

\* A sharded model as LoadShardedModel leaves it: the index as the index
\* file gives it, no header parsed yet; the shards as the repo holds them.
ShardedLoaded ==
    \E wm \in [TensorNames -> Shards \cup {NoShard}] :
    \E missing \in {m \in SUBSET TensorNames : Cardinality(m) <= 1} :
    \E starts \in [TensorNames -> 0..MaxOffset] :
    \E bad \in {[file |-> NoShard, kind |-> "ok"]} \cup [file : Shards, kind : BadKinds] :
        /\ Index = [WeightMap |-> [n \in {x \in TensorNames : wm[x] # NoShard} |-> wm[n]]]
        /\ repoFiles = [s \in {x \in Shards : ~(bad.file = x /\ bad.kind = "absent")} |->
                          ShardFile({n \in TensorNames : wm[n] = s /\ n \notin missing}, starts,
                                    IF bad.file = s THEN bad.kind ELSE "ok")]
        /\ listing = <<IndexName, Shard1, Shard2>>
        /\ IndexFile = IndexName
        /\ Headers = <<>>
        /\ loadErr = NoErr

\* A model made by NewEmpty and never loaded.
Unloaded ==
    /\ Index = Nil
    /\ IndexFile = <<>>
    /\ Headers = <<>>
    /\ loadErr = Unset

Init ==
    /\ impl = "safetensors"
    /\ ModelIdle
    /\ ReadIdle
    /\ GGUFIdle
    /\ \/ ShardedLoaded
       \/ /\ Unloaded
          /\ listing = <<>>
          /\ repoFiles = <<>>

Next == IterStart \/ IterOpenShard \/ IterReadNext \/ GetTensor

Spec == Init /\ [][Next]_vars


\* ------------------------------------------------ a single ReadTensor call
\* The reader that parseHeader and mmap.Open give for a file.
OpenReader(f) ==
    LET ph == parseHeader(f) IN
    IF ph.err # NoErr THEN [err |-> ph.err, reader |-> Nil]
    ELSE [err |-> NoErr, reader |-> [file |-> f, dataOffset |-> ph.dataOffset, Header |-> ph.header]]

\* Open the file under test and read one tensor of it by name.
ReadTensorCall ==
    /\ rdIn # Nil
    /\ rdRes = Nil
    /\ LET o == OpenReader(rdIn.file) IN
       rdRes' = IF o.err # NoErr THEN [err |-> o.err, bytes |-> <<>>]
                ELSE ReadTensor(o.reader, rdIn.name)
    /\ UNCHANGED <<impl, repoVars, modelVars, iterVars, getVars, rdIn, ggufVars>>

ShapeChoices == {<<>>, <<1>>, <<2>>, <<2, 2>>}

SizeBytesChoices == {LEBytes(HeaderLen), LEBytes(HeaderLen + MaxData + 1), <<0, 0, 0, 0, 1, 0, 0, 0>>}

InitRead ==
    /\ impl = "safetensors"
    /\ ModelIdle
    /\ GGUFIdle
    /\ Unloaded
    /\ listing = <<>>
    /\ repoFiles = <<>>
    /\ rdRes = Nil
    /\ \E dtype \in DTypeNames \cup {"Q9"}, shape \in ShapeChoices, start \in 0..MaxStart,
          span \in 0..MaxSpan, len \in 0..MaxData, seed \in 0..MaxByte,
          sizeBytes \in SizeBytesChoices, name \in {"a", "zz"} :
         rdIn = [name |-> name,
                 file |-> [sizeBytes |-> sizeBytes,
                           hlen |-> HeaderLen,
                           json |-> TRUE,
                           mappable |-> TRUE,
                           tensors |-> [n \in {"a"} |-> TensorMeta(dtype, shape, start, start + span)],
                           data |-> [i \in 1..len |-> (seed + i) % 256]]]

NextRead == ReadTensorCall

SpecRead == InitRead /\ [][NextRead]_vars

\* -------------------------------------------------------------- Model.Load
ModelST == <<Comp("model", ".safetensors")>>
OtherST == <<Comp("other", ".safetensors")>>
SubDirST == <<Comp("unet", ""), Comp("model", ".safetensors")>>
ConfigJSON == <<Comp("config", ".json")>>
SubDirIndex == <<Comp("sharded", ""), Comp("model.safetensors.index", ".json")>>

ListedNames == {ModelST, OtherST, SubDirST, ConfigJSON, IndexName, SubDirIndex}

commonIndexFiles == {IndexName, <<Comp("pytorch_model.safetensors.index", ".json")>>}

\* Model.DetectShardedModel: the first listed name that is an index file.
RECURSIVE DetectShardedModel(_)
DetectShardedModel(names) ==
    IF names = <<>> THEN [filename |-> <<>>, isSharded |-> FALSE]
    ELSE IF Head(names) \in commonIndexFiles \/ Base(Head(names)) \in commonIndexFiles
        THEN [filename |-> Head(names), isSharded |-> TRUE]
    ELSE DetectShardedModel(Tail(names))

\* The loop of LoadSingleFileModel over the listing: every .safetensors file
\* is downloaded, in order; the first failed download ends the load.
RECURSIVE DownloadSafetensors(_)
DownloadSafetensors(names) ==
    IF names = <<>> THEN [err |-> NoErr, localPaths |-> <<>>]
    ELSE IF Ext(Head(names)) # ".safetensors" THEN DownloadSafetensors(Tail(names))
    ELSE LET dl == DownloadFile(Head(names)) IN
         IF dl.err # NoErr THEN [err |-> "download", localPaths |-> <<>>]
         ELSE LET rest == DownloadSafetensors(Tail(names)) IN
              IF rest.err # NoErr THEN rest
              ELSE [err |-> NoErr, localPaths |-> <<dl.localPath>> \o rest.localPaths]

\* Model.LoadSingleFileModel: the error and the fields it sets.
LoadSingleFileModel ==
    LET dls == DownloadSafetensors(listing) IN
    IF dls.err # NoErr THEN [err |-> dls.err]
    ELSE IF dls.localPaths = <<>> THEN [err |-> "no_safetensors"]
    ELSE LET first == dls.localPaths[1]
             ph == parseHeader(LocalFile(first))
         IN IF ph.err # NoErr THEN [err |-> "parse_header"]
            ELSE [err |-> NoErr,
                  Index |-> [WeightMap |-> [t \in DOMAIN ph.header.Tensors |-> Base(first)]],
                  IndexFile |-> first,
                  Headers |-> [f \in {Base(first)} |-> ph.header]]

\* Model.LoadShardedModel
LoadShardedModel(indexFilename) ==
    LET dl == DownloadFile(indexFilename) IN
    IF dl.err # NoErr THEN [err |-> "download"]
    ELSE IF ~LocalFile(dl.localPath).json THEN [err |-> "parse_index"]
    ELSE [err |-> NoErr,
          Index |-> [WeightMap |-> LocalFile(dl.localPath).weight_map],
          IndexFile |-> indexFilename,
          Headers |-> <<>>]

\* Model.Load on a model made by NewEmpty.
Load ==
    /\ loadErr = Unset
    /\ listing # <<>>
    /\ LET d == DetectShardedModel(listing)
           r == IF d.isSharded THEN LoadShardedModel(d.filename) ELSE LoadSingleFileModel
       IN /\ loadErr' = r.err
          /\ IF r.err = NoErr
                THEN /\ Index' = r.Index
                     /\ IndexFile' = r.IndexFile
                     /\ Headers' = r.Headers
                ELSE UNCHANGED <<Index, IndexFile, Headers>>
    /\ UNCHANGED <<impl, repoVars, iterVars, getVars, readVars, ggufVars>>

\* The content the repo holds for a listed name.
ListedFile(name, kind) ==
    IF Ext(name) = ".safetensors"
        THEN [sizeBytes |-> LEBytes(HeaderLen),
              hlen |-> HeaderLen,
              json |-> kind # "malformed",
              mappable |-> TRUE,
              tensors |->
                  [n \in (IF name = ModelST THEN {"a", "b"} ELSE IF name = OtherST THEN {"c"} ELSE {"a"})
                      |-> TensorMeta("U8", <<1>>, 0, 1)],
              data |-> <<1>>]
        ELSE [json |-> kind # "malformed",
              weight_map |-> [n \in {"a", "b"} |-> IF n = "a" THEN ModelST ELSE OtherST]]

Listings ==
    {l \in UNION {[1..k -> ListedNames] : k \in 1..MaxListing} :
        \A i, j \in DOMAIN l : l[i] = l[j] => i = j}

InitLoad ==
    /\ impl = "safetensors"
    /\ ModelIdle
    /\ ReadIdle
    /\ GGUFIdle
    /\ Unloaded
    /\ listing \in Listings
    /\ \E bad \in {[file |-> NoShard, kind |-> "ok"]} \cup [file : Range(listing), kind : {"absent", "malformed"}] :
         repoFiles = [name \in {x \in Range(listing) : ~(bad.file = x /\ bad.kind = "absent")} |->
                         ListedFile(name, IF bad.file = name THEN bad.kind ELSE "ok")]

NextLoad == Load

SpecLoad == InitLoad /\ [][NextLoad]_vars

\* ------------------------------------------------------------ GGUF model
\* NewMMapReader of package gguf on the model's path and File.
GGUFNewMMapReader(file) ==
    IF ~gg.mappable THEN [err |-> "mmap", reader |-> Nil]
    ELSE [err |-> NoErr, reader |-> [image |-> gg, file |-> file, dataOffset |-> file.dataOffset]]

\* NewFromFile: Open on the file's path; Model.File is set on success.
NewFromFile ==
    /\ impl = "gguf"
    /\ ggErr = Unset
    /\ LET o == Open(gg) IN
         /\ ggErr' = o.err
         /\ ggFile' = IF o.err = NoErr THEN o.file ELSE Nil
    /\ UNCHANGED <<gg, ggRes, ggOpen, ggOpenCount>>
    /\ UNCHANGED <<impl, repoVars, modelVars, iterVars, getVars, readVars>>

GGUFReadNames == {"t0", "t1", "missing"}

GGUFResult(op, tensorName, r) ==
    [op |-> op, name |-> tensorName, err |-> r.err, bytes |-> r.bytes,
     elements |-> r.elements, dequantized |-> r.dequantized]

GGUFFailure(err) == [err |-> err, bytes |-> <<>>, elements |-> 0, dequantized |-> 0]

\* Model.GetTensor of package gguf: the reader it opens is closed on return.
GGUFGetTensor ==
    /\ impl = "gguf"
    /\ pc = "idle"
    /\ getCount < MaxGets
    /\ \E tensorName \in GGUFReadNames :
         ggRes' = GGUFResult("ReadTensor", tensorName,
             IF ggFile = Nil THEN GGUFFailure("not_loaded")
             ELSE LET r == GGUFNewMMapReader(ggFile) IN
                  IF r.err # NoErr THEN GGUFFailure(r.err)
                  ELSE GGUFReadTensor(r.reader, tensorName))
    /\ getCount' = getCount + 1
    /\ UNCHANGED <<gg, ggFile, ggErr, ggOpen, ggOpenCount, getOpen, getRes>>
    /\ UNCHANGED <<impl, repoVars, modelVars, iterVars, readVars>>

\* ReadTensorRaw on a reader made for the parsed File, closed after the call.
GGUFGetTensorRaw ==
    /\ impl = "gguf"
    /\ pc = "idle"
    /\ getCount < MaxGets
    /\ ggFile # Nil
    /\ \E tensorName \in GGUFReadNames :
         ggRes' = GGUFResult("ReadTensorRaw", tensorName,
             LET r == GGUFNewMMapReader(ggFile) IN
             IF r.err # NoErr THEN GGUFFailure(r.err)
             ELSE GGUFReadTensorRaw(r.reader, tensorName))
    /\ getCount' = getCount + 1
    /\ UNCHANGED <<gg, ggFile, ggErr, ggOpen, ggOpenCount, getOpen, getRes>>
    /\ UNCHANGED <<impl, repoVars, modelVars, iterVars, readVars>>

\* The orders slices.SortFunc can leave the tensor infos in: ascending Offset.
GGUFSorted(tis) ==
    {[i \in DOMAIN s |-> tis[s[i]]] : s \in
        {p \in Perms(DOMAIN tis) : \A i, j \in DOMAIN p : i < j => tis[p[i]].Offset <= tis[p[j]].Offset}}

\* Mutant of GGUFClose: the deferred Close is dropped.
GGUFClose_Leak == ggOpen

\* The deferred reader.Close() of the GGUF iterator.
GGUFClose == ggOpen - 1

\* Entry of Model.IterTensors of package gguf: the not-loaded check, the
\* reader and the sort.
GGUFIterStart ==
    /\ impl = "gguf"
    /\ pc = "idle"
    /\ IF ggFile = Nil
          THEN /\ iterErr' = "not_loaded"
               /\ pc' = "done"
               /\ UNCHANGED <<queue, ggOpen, ggOpenCount>>
          ELSE LET r == GGUFNewMMapReader(ggFile) IN
               IF r.err # NoErr
                  THEN /\ iterErr' = r.err
                       /\ pc' = "done"
                       /\ UNCHANGED <<queue, ggOpen, ggOpenCount>>
                  ELSE /\ ggOpen' = ggOpen + 1
                       /\ ggOpenCount' = ggOpenCount + 1
                       /\ queue' \in GGUFSorted(ggFile.TensorInfos)
                       /\ pc' = "read"
                       /\ UNCHANGED iterErr
    /\ UNCHANGED <<pending, cur, yielded, stopped, iterOpen, openCount>>
    /\ UNCHANGED <<gg, ggFile, ggErr, ggRes>>
    /\ UNCHANGED <<impl, repoVars, modelVars, getVars, readVars>>

\* One turn of the loop over the sorted tensor infos; every return runs the
\* deferred Close.
GGUFIterReadNext ==
    /\ impl = "gguf"
    /\ pc = "read"
    /\ IF queue = <<>>
          THEN /\ ggOpen' = GGUFClose
               /\ pc' = "done"
               /\ UNCHANGED <<queue, yielded, iterErr, stopped>>
          ELSE LET info == Head(queue)
                   t == GGUFReadTensor(GGUFNewMMapReader(ggFile).reader, info.Name)
               IN IF t.err # NoErr
                     THEN /\ ggOpen' = GGUFClose
                          /\ iterErr' = t.err
                          /\ pc' = "done"
                          /\ UNCHANGED <<queue, yielded, stopped>>
                     ELSE /\ yielded' = Append(yielded, [name |-> info.Name, file |-> NoShard,
                                                         offset |-> info.Offset])
                          /\ \E continue \in BOOLEAN :
                               IF continue
                                  THEN /\ queue' = Tail(queue)
                                       /\ UNCHANGED <<pc, ggOpen, stopped>>
                                  ELSE /\ ggOpen' = GGUFClose
                                       /\ stopped' = TRUE
                                       /\ pc' = "done"
                                       /\ UNCHANGED queue
                          /\ UNCHANGED iterErr
    /\ UNCHANGED <<pending, cur, iterOpen, openCount, ggOpenCount>>
    /\ UNCHANGED <<gg, ggFile, ggErr, ggRes>>
    /\ UNCHANGED <<impl, repoVars, modelVars, getVars, readVars>>

\* ------------------------------------------------------ GGUF initial states
StringSize(s) == 8 + Len(s)

RECURSIVE StringsSize(_)
StringsSize(strs) == IF strs = <<>> THEN 0 ELSE StringSize(Head(strs)) + StringsSize(Tail(strs))

\* Bytes a value of the file takes as written.
ValueSize(v) ==
    CASE v.type \in NumericValueTypes \cup {valueTypeBool} -> ScalarSize(v.type)
      [] v.type = valueTypeString -> StringSize(v.str)
      [] v.type = valueTypeArray ->
            4 + 8 + (IF v.elemType \in NumericValueTypes \cup {valueTypeBool}
                        THEN v.count * ScalarSize(v.elemType)
                        ELSE StringsSize(v.strs))
      [] OTHER -> 0

RECURSIVE KVsSize(_)
KVsSize(kvs) ==
    IF kvs = <<>> THEN 0
    ELSE StringSize(Head(kvs).Key) + 4 + ValueSize(Head(kvs).Value) + KVsSize(Tail(kvs))

RECURSIVE TensorInfosSize(_)
TensorInfosSize(tis) ==
    IF tis = <<>> THEN 0
    ELSE StringSize(Head(tis).Name) + 4 + 8 * Len(Head(tis).Shape) + 4 + 8 + TensorInfosSize(Tail(tis))

\* Bytes of the header as written: magic, version, two counts, the pairs
\* and the tensor infos.
HeaderSize(kvs, tis) == 4 + 4 + 8 + 8 + KVsSize(kvs) + TensorInfosSize(tis)

ScalarValue(type, num) ==
    [type |-> type, elemType |-> valueTypeUint8, num |-> num, str |-> "", count |-> 0, strs |-> <<>>]

StringValue(str) ==
    [type |-> valueTypeString, elemType |-> valueTypeUint8, num |-> 0, str |-> str, count |-> 0, strs |-> <<>>]

ArrayValue(elemType, count, strs) ==
    [type |-> valueTypeArray, elemType |-> elemType, num |-> 0, str |-> "", count |-> count, strs |-> strs]

KV(key, value) == [Key |-> key, Value |-> value]

AlignmentKVs ==
    {KV("general.alignment", ScalarValue(t, a)) :
        t \in {valueTypeUint8, valueTypeUint32, valueTypeInt64}, a \in {16, 64}}
    \cup {KV("general.alignment", ScalarValue(valueTypeUint32, 0)),
          KV("general.alignment", StringValue("64"))}

OtherKVs ==
    {KV("general.architecture", StringValue("llama")),
     KV("tokenizer.ggml.tokens", ArrayValue(valueTypeString, 2, <<"a", "bc">>)),
     KV("tokenizer.ggml.token_type", ArrayValue(valueTypeInt32, 3, <<>>)),
     KV("nested", ArrayValue(valueTypeArray, 1, <<>>)),
     KV("odd", ScalarValue(13, 0))}

KVChoices == AlignmentKVs \cup OtherKVs

TensorInfo(name, shape, type, offset) ==
    [Name |-> name, Shape |-> shape, Type |-> type, Offset |-> offset]

GGUFTypeChoices == {TensorTypeF32, TensorTypeI8, TensorTypeQ8_0, TensorTypeQ8_1, TensorTypeUnknown}

GGUFShapeChoices == {<<>>, <<2>>, <<32>>, <<40>>}

\* The file image with the given header, tail bytes after it (a negative
\* tail is a file cut inside the header).
GGUFImage(magic, version, kvs, tis, tail, mappable) ==
    [magic |-> magic, Version |-> version, kvs |-> kvs, tensors |-> tis,
     len |-> HeaderSize(kvs, tis) + tail, seed |-> 1, mappable |-> mappable]

\* Files that differ in their metadata, around one F32 tensor.
GGUFMetadataFiles ==
    {GGUFImage(h[1], h[2], kvs, <<TensorInfo("t0", <<2>>, TensorTypeF32, 0)>>, tail, TRUE) :
        h \in {<<"GGUF", 3>>, <<"GGUF", 1>>, <<"GGML", 3>>},
        kvs \in UNION {[1..k -> KVChoices] : k \in 0..MaxKVs},
        tail \in {0 - 1, 40}}

\* Files that differ in their tensors.
GGUFTensorFiles ==
    {GGUFImage("GGUF", 3, <<>>, <<TensorInfo("t0", shape, type, offset)>> \o more, tail, mappable) :
        shape \in GGUFShapeChoices, type \in GGUFTypeChoices, offset \in {0, 32},
        more \in UNION {[1..k -> {TensorInfo(n, <<2>>, TensorTypeF32, 0) : n \in {"t0", "t1"}}] :
                            k \in 0..(MaxTensors - 1)},
        tail \in {0, 36, 120}, mappable \in BOOLEAN}

InitGGUF ==
    /\ impl = "gguf"
    /\ ModelIdle
    /\ ReadIdle
    /\ Unloaded
    /\ listing = <<>>
    /\ repoFiles = <<>>
    /\ gg \in GGUFMetadataFiles \cup GGUFTensorFiles
    /\ ggFile = Nil
    /\ ggErr = Unset
    /\ ggRes = Nil
    /\ ggOpen = 0
    /\ ggOpenCount = 0

NextGGUF == NewFromFile \/ GGUFGetTensor \/ GGUFGetTensorRaw \/ GGUFIterStart \/ GGUFIterReadNext

SpecGGUF == InitGGUF /\ [][NextGGUF]_vars

\* --------------------------------------- Model.IterTensors (safetensor)
\* MMapReader.ReadTensor of package safetensor: reader is the open mapping
\* (file, dataOffset, Header).
LegacyReadTensor(reader, tensorName) ==
    IF tensorName \notin DOMAIN reader.Header.Tensors
        THEN [err |-> "tensor_not_found", bytes |-> <<>>]
    ELSE
    LET meta == reader.Header.Tensors[tensorName]
        dt == dtypeToGoMLX(meta.Dtype)
    IN  IF dt.err # NoErr THEN [err |-> dt.err, bytes |-> <<>>]
        ELSE
        LET bufLen == Product(meta.Shape) * DTypeSize(dt.dtype)
            tensorOffset == reader.dataOffset + meta.DataOffsets[1]
            expectedBytes == Product(meta.Shape) * DTypeSize(dt.dtype)
        IN  IF bufLen # expectedBytes THEN [err |-> "size_mismatch", bytes |-> <<>>]
            ELSE LET rd == MMapReadAt(reader.file, bufLen, tensorOffset)
                 IN IF rd.err # NoErr THEN [err |-> rd.err, bytes |-> <<>>]
                    ELSE [err |-> NoErr, bytes |-> rd.bytes]

\* sortTensorsByOffset of package safetensor.
LegacySortTensorsByOffset(tensorNames, header) ==
    LET kept == {n \in tensorNames : n \in DOMAIN header.Tensors}
    IN {s \in Perms(kept) :
           \A i, j \in DOMAIN s :
               i < j => header.Tensors[s[i]].DataOffsets[1] <= header.Tensors[s[j]].DataOffsets[1]}

\* reader.Close() of the mapping the iterator opened with mmap.Open.
LegacyClose(fileName) == [iterOpen EXCEPT ![fileName] = @ - 1]

\* Entry of the iterator: the not-loaded check and the bucketing by shard.
LegacyIterStart ==
    /\ pc = "idle"
    /\ impl = "safetensor"
    /\ IF NotLoaded
          THEN /\ iterErr' = "not_loaded"
               /\ pc' = "done"
               /\ pending' = {}
          ELSE /\ iterErr' = NoErr
               /\ pc' = "next"
               /\ pending' = Range(Index.WeightMap)
    /\ UNCHANGED <<cur, queue, yielded, stopped, iterOpen, openCount>>
    /\ UNCHANGED <<impl, repoVars, modelVars, getVars, readVars, ggufVars>>

\* Top of the loop over shards: download, parse the header, map the file and
\* sort the shard's tensors; or finish when every shard is done.
LegacyIterOpenShard ==
    /\ pc = "next"
    /\ impl = "safetensor"
    /\ IF pending = {}
          THEN /\ pc' = "done"
               /\ UNCHANGED <<pending, cur, queue, iterErr, iterOpen, openCount>>
          ELSE \E filename \in pending :
               LET dl == DownloadFile(filename)
                   ph == parseHeader(LocalFile(dl.localPath))
               IN
               /\ pending' = pending \ {filename}
               /\ IF dl.err # NoErr
                     THEN /\ iterErr' = "download"
                          /\ pc' = "done"
                          /\ UNCHANGED <<cur, queue, iterOpen, openCount>>
                  ELSE IF ph.err # NoErr
                     THEN /\ iterErr' = "parse_header"
                          /\ pc' = "done"
                          /\ UNCHANGED <<cur, queue, iterOpen, openCount>>
                  ELSE IF ~LocalFile(dl.localPath).mappable
                     THEN /\ iterErr' = "mmap"
                          /\ pc' = "done"
                          /\ UNCHANGED <<cur, queue, iterOpen, openCount>>
                  ELSE /\ cur' = [name |-> filename, file |-> LocalFile(dl.localPath),
                                  dataOffset |-> ph.dataOffset, Header |-> ph.header]
                       /\ iterOpen' = [iterOpen EXCEPT ![filename] = @ + 1]
                       /\ openCount' = [openCount EXCEPT ![filename] = @ + 1]
                       /\ queue' \in LegacySortTensorsByOffset(shardToTensors(filename), ph.header)
                       /\ pc' = "read"
                       /\ UNCHANGED iterErr
    /\ UNCHANGED <<yielded, stopped>>
    /\ UNCHANGED <<impl, repoVars, modelVars, getVars, readVars, ggufVars>>

\* One turn of the loop over the sorted tensors of the open shard: read,
\* yield, and close the mapping on error, on a stop and at the end.
LegacyIterReadNext ==
    /\ pc = "read"
    /\ impl = "safetensor"
    /\ IF queue = <<>>
          THEN /\ iterOpen' = LegacyClose(cur.name)
               /\ cur' = Nil
               /\ pc' = "next"
               /\ UNCHANGED <<queue, yielded, iterErr, stopped>>
          ELSE LET t == LegacyReadTensor(cur, Head(queue)) IN
               IF t.err # NoErr
                  THEN /\ iterOpen' = LegacyClose(cur.name)
                       /\ iterErr' = t.err
                       /\ pc' = "done"
                       /\ cur' = Nil
                       /\ UNCHANGED <<queue, yielded, stopped>>
                  ELSE /\ yielded' = Append(yielded, [name |-> Head(queue), file |-> cur.name,
                                                      offset |-> cur.Header.Tensors[Head(queue)].DataOffsets[1]])
                       /\ \E continue \in BOOLEAN :
                            IF continue
                               THEN /\ queue' = Tail(queue)
                                    /\ UNCHANGED <<pc, cur, iterOpen, stopped>>
                               ELSE /\ iterOpen' = LegacyClose(cur.name)
                                    /\ stopped' = TRUE
                                    /\ pc' = "done"
                                    /\ cur' = Nil
                                    /\ UNCHANGED queue
                       /\ UNCHANGED iterErr
    /\ UNCHANGED <<pending, openCount>>
    /\ UNCHANGED <<impl, repoVars, modelVars, getVars, readVars, ggufVars>>

InitLegacy ==
    /\ impl = "safetensor"
    /\ ModelIdle
    /\ ReadIdle
    /\ GGUFIdle
    /\ \/ ShardedLoaded
       \/ /\ Unloaded
          /\ listing = <<>>
          /\ repoFiles = <<>>

NextLegacy == LegacyIterStart \/ LegacyIterOpenShard \/ LegacyIterReadNext

\* ------------------------------------------- the three tensor iterators
InitIterAll == Init \/ InitLegacy \/ InitGGUF

NextIterAll == Next \/ NextLegacy \/ NextGGUF

SpecIterAll == InitIterAll /\ [][NextIterAll]_vars

\* ------------------------------------------------- element counts of shapes
\* TensorMetadata.NumElements of package safetensors.
TensorMetadataNumElements(tm) == IF Len(tm.Shape) = 0 THEN 1 ELSE Product(tm.Shape)

\* No model, file or iteration: the state around a call of a pure function.
NothingLoaded ==
    /\ ModelIdle
    /\ GGUFIdle
    /\ Unloaded
    /\ listing = <<>>
    /\ repoFiles = <<>>

Shapes == UNION {[1..k -> 0..MaxDim] : k \in 0..MaxDims}

\* NumElements called on a safetensors TensorMetadata of the shape.
CallTensorMetadataNumElements ==
    /\ impl = "shape"
    /\ rdRes = Nil
    /\ rdRes' = [of |-> "TensorMetadata",
                 n |-> TensorMetadataNumElements(TensorMeta("F32", rdIn.Shape, 0, 0))]
    /\ UNCHANGED <<rdIn, impl, repoVars, modelVars, iterVars, getVars, ggufVars>>

\* NumElements called on a GGUF TensorInfo of the shape.
CallTensorInfoNumElements ==
    /\ impl = "shape"
    /\ rdRes = Nil
    /\ rdRes' = [of |-> "TensorInfo",
                 n |-> NumElements(TensorInfo("t0", rdIn.Shape, TensorTypeF32, 0))]
    /\ UNCHANGED <<rdIn, impl, repoVars, modelVars, iterVars, getVars, ggufVars>>

InitShape ==
    /\ impl = "shape"
    /\ NothingLoaded
    /\ rdIn \in [Shape : Shapes]
    /\ rdRes = Nil

NextShape == CallTensorMetadataNumElements \/ CallTensorInfoNumElements

SpecShape == InitShape /\ [][NextShape]_vars

\* ------------------------------------------------- GGUF block dequantizers
\* The dequantizers are modelled by the indices they touch: one innermost loop
\* iteration k (counted from 0 across the nested loops) of a function reads the
\* src indices .src, writes the dst indices .dst and leaves the running output
\* index at .idx.  n is len(src).

\* Index i of the slice src[off : off+len], as an index of src; -1 when i is
\* outside the slice (the access panics).
SliceAt(off, len, i) == IF i >= 0 /\ i < len THEN off + i ELSE -1

dequantQ8_0(n, k, idx) ==
    [src |-> {SliceAt(0, 2, 0), SliceAt(0, 2, 1), SliceAt(0, n, 2 + k)},
     dst |-> {k}, idx |-> idx]

dequantQ4_0(n, k, idx) ==
    [src |-> {SliceAt(0, 2, 0), SliceAt(0, 2, 1), SliceAt(2, n - 2, k)},
     dst |-> {k, k + 16}, idx |-> idx]

dequantQ4_1(n, k, idx) ==
    [src |-> {SliceAt(0, 2, 1), SliceAt(2, 2, 1), SliceAt(4, n - 4, k)},
     dst |-> {k, k + 16}, idx |-> idx]

dequantQ5_0(n, k, idx) ==
    [src |-> {SliceAt(0, 2, 1), SliceAt(2, 4, 3), SliceAt(6, n - 6, k)},
     dst |-> {k, k + 16}, idx |-> idx]

dequantQ5_1(n, k, idx) ==
    [src |-> {SliceAt(0, 2, 1), SliceAt(2, 2, 1), SliceAt(4, 4, 3), SliceAt(8, n - 8, k)},
     dst |-> {k, k + 16}, idx |-> idx]

\* Loops n in {0, 128}, j < 4, two inner loops of l < 16; is counts the inner
\* loops entered so far.
dequantQ2_K(n, k, idx) ==
    LET nn == 128 * (k \div 128)
        second == (k % 32) \div 16
        l == k % 16
        is == k \div 16
    IN [src |-> {SliceAt(0, 16, is), SliceAt(16, 64, nn \div 4 + 16 * second + l),
                 SliceAt(80, 2, 1), SliceAt(82, 2, 1)},
        dst |-> {idx}, idx |-> idx + 1]

\* Two groups, four sub-groups each, two inner loops of l < 16; scales is a local
\* array of 16 entries and qOff advances by 32 per group.
dequantQ3_K(n, k, idx) ==
    LET qOff == 32 * (k \div 128)
        second == (k % 32) \div 16
        l == k % 16
        is == k \div 16
    IN [src |-> {SliceAt(0, 32, 16 * second + l), SliceAt(32, 64, qOff + 16 * second + l),
                 SliceAt(96, 12, 11), SliceAt(108, 2, 1),
                 IF is < 16 THEN 0 ELSE -1},
        dst |-> {idx}, idx |-> idx + 1]

\* getScaleMinK4: the indices of the 12-byte scales slice read for sub-block j.
getScaleMinK4(j) == IF j < 4 THEN {j, j + 4} ELSE {j + 4, j - 4, j}

\* Loop j in {0, 64, 128, 192}, two inner loops of l < 32; is advances by 2.
dequantQ4_K(n, k, idx) ==
    LET j == 64 * (k \div 64)
        is == 2 * (k \div 64)
        qoff == j \div 2
        l == k % 32
    IN [src |-> {SliceAt(0, 2, 1), SliceAt(2, 2, 1), SliceAt(16, n - 16, qoff + l)}
                \cup {SliceAt(4, 12, i) : i \in getScaleMinK4(is) \cup getScaleMinK4(is + 1)},
        dst |-> {idx}, idx |-> idx + 1]

\* Mutant of dequantQ6_K: the two upper quarters of each half are not written.
dequantQ6_K_LowQuartersOnly(n, k, idx) ==
    LET l == k % 32
    IN [src |-> {SliceAt(208, 2, 1)}, dst |-> {idx + l, idx + l + 32},
        idx |-> IF l = 31 THEN idx + 128 ELSE idx]

\* Four groups, two inner loops of l < 32; qlOff advances by 32, is by 2.
dequantQ5_K(n, k, idx) ==
    LET g == k \div 64
        is == 2 * g
        qlOff == 32 * g
        l == k % 32
    IN [src |-> {SliceAt(0, 2, 1), SliceAt(2, 2, 1), SliceAt(16, 32, l),
                 SliceAt(48, n - 48, qlOff + l)}
                \cup {SliceAt(4, 12, i) : i \in getScaleMinK4(is) \cup getScaleMinK4(is + 1)},
        dst |-> {idx}, idx |-> idx + 1]

\* Loop n in {0, 128}, inner loop l < 32 writing four outputs; idx advances by
\* 128, qlOff by 64, qhOff by 32 and scOff by 8 after each inner loop.
dequantQ6_K(n, k, idx) ==
    LET h == k \div 32
        l == k % 32
        is == l \div 16
        qlOff == 64 * h
        qhOff == 32 * h
        scOff == 8 * h
    IN [src |-> {SliceAt(0, 128, qlOff + l), SliceAt(0, 128, qlOff + l + 32),
                 SliceAt(128, 64, qhOff + l), SliceAt(208, 2, 1),
                 SliceAt(192, 16, scOff + is), SliceAt(192, 16, scOff + is + 2),
                 SliceAt(192, 16, scOff + is + 4), SliceAt(192, 16, scOff + is + 6)},
        dst |-> {idx + l, idx + l + 32, idx + l + 64, idx + l + 96},
        idx |-> IF l = 31 THEN idx + 128 ELSE idx]

\* The innermost loop iterations one call of the dequantizer of type t runs.
DequantIterations(t) ==
    CASE t = TensorTypeQ8_0 -> 32
      [] t \in {TensorTypeQ4_0, TensorTypeQ4_1, TensorTypeQ5_0, TensorTypeQ5_1} -> 16
      [] t \in {TensorTypeQ2_K, TensorTypeQ3_K, TensorTypeQ4_K, TensorTypeQ5_K} -> 256
      [] t = TensorTypeQ6_K -> 64

\* The function getDequantFunc returns for t, applied to iteration k.
DequantIteration(t, n, k, idx) ==
    CASE t = TensorTypeQ8_0 -> dequantQ8_0(n, k, idx)
      [] t = TensorTypeQ4_0 -> dequantQ4_0(n, k, idx)
      [] t = TensorTypeQ4_1 -> dequantQ4_1(n, k, idx)
      [] t = TensorTypeQ5_0 -> dequantQ5_0(n, k, idx)
      [] t = TensorTypeQ5_1 -> dequantQ5_1(n, k, idx)
      [] t = TensorTypeQ2_K -> dequantQ2_K(n, k, idx)
      [] t = TensorTypeQ3_K -> dequantQ3_K(n, k, idx)
      [] t = TensorTypeQ4_K -> dequantQ4_K(n, k, idx)
      [] t = TensorTypeQ5_K -> dequantQ5_K(n, k, idx)
      [] t = TensorTypeQ6_K -> dequantQ6_K(n, k, idx)

\* One innermost iteration of the dequantizer of one block: an index outside
\* src or dst panics, otherwise the outputs are written.
DequantStep ==
    /\ impl = "dequant"
    /\ ~rdRes.panicked
    /\ rdRes.k < DequantIterations(rdIn.Type)
    /\ LET a == DequantIteration(rdIn.Type, rdIn.srcLen, rdRes.k, rdRes.idx)
       IN IF a.src \subseteq 0..(rdIn.srcLen - 1) /\ a.dst \subseteq 0..(rdIn.dstLen - 1)
          THEN rdRes' = [k |-> rdRes.k + 1, idx |-> a.idx,
                         written |-> rdRes.written \cup a.dst,
                         writes |-> rdRes.writes + Cardinality(a.dst),
                         panicked |-> FALSE]
          ELSE rdRes' = [rdRes EXCEPT !.panicked = TRUE]
    /\ UNCHANGED <<rdIn, impl, repoVars, modelVars, iterVars, getVars, ggufVars>>

\* ReadTensor hands each dequantizer a src of TypeSize bytes and a dst of
\* BlockSize elements.
InitDequant ==
    /\ impl = "dequant"
    /\ NothingLoaded
    /\ rdIn \in {[Type |-> t, srcLen |-> TypeSize(t), dstLen |-> BlockSize(t)] :
                    t \in DequantTypes}
    /\ rdRes = [k |-> 0, idx |-> 0, written |-> {}, writes |-> 0, panicked |-> FALSE]

NextDequant == DequantStep

SpecDequant == InitDequant /\ [][NextDequant]_vars

\* ---------------------------------------------------- tokenizers: strings
\* A Go string is modelled as the sequence of its runes (code points); len() of
\* a string is its UTF-8 byte length, and `range` yields the byte index of each
\* rune.  Offsets arrays are 1-based here: Go's offsets[i] is offsets[i + 1].

\* len(string(r))
RuneLen(r) == IF r < 128 THEN 1 ELSE IF r < 2048 THEN 2 ELSE 3

RECURSIVE StrLen(_)
\* len(s)
StrLen(s) == IF s = <<>> THEN 0 ELSE RuneLen(Head(s)) + StrLen(Tail(s))

\* len(string(runes[:i])): the byte index of the rune after the first i runes.
BytePos(s, i) == StrLen(SubSeq(s, 1, i))

\* []byte(string(r))
UTF8(r) ==
    IF r < 128 THEN <<r>>
    ELSE IF r < 2048 THEN <<192 + (r \div 64), 128 + (r % 64)>>
    ELSE <<224 + (r \div 4096), 128 + ((r \div 64) % 64), 128 + (r % 64)>>

\* The byte-to-unicode table init() builds: printable bytes map to themselves,
\* the n-th other byte to rune 256 + n.
byteToUnicode(b) ==
    LET printable(x) == (x >= 33 /\ x <= 126) \/ (x >= 161 /\ x <= 172) \/ (x >= 174 /\ x <= 255)
    IN IF printable(b) THEN b
       ELSE 256 + Cardinality({x \in 0..(b - 1) : ~printable(x)})

\* strings.ToLower of one rune (ASCII and Latin-1 letters).
ToLower(r) ==
    IF (r >= 65 /\ r <= 90) \/ (r >= 192 /\ r <= 222 /\ r # 215) THEN r + 32 ELSE r

isWhitespace(r) == r \in {32, 9, 10, 13, 160}

isControl(r) == r \notin {9, 10, 13} /\ (r < 32 \/ (r >= 127 /\ r <= 159))

isPunctuation(r) ==
    \/ (r >= 33 /\ r <= 47) \/ (r >= 58 /\ r <= 64)
    \/ (r >= 91 /\ r <= 96) \/ (r >= 123 /\ r <= 126)
    \/ r \in {161, 167, 171, 182, 183, 187, 191}

\* unicode.IsSpace
IsSpace(r) == r \in {9, 10, 11, 12, 13, 32, 133, 160}

\* ------------------------------------------------ tokenizers: normalizers
\* The identity mapping of normalizeWithSpans and of the Sequence normalizer:
\* `for i := range text { offsets[i] = i }` assigns only at the byte index of
\* each rune; the other entries keep the zero of make().
IdentityOffsets(text) ==
    [p \in 1..StrLen(text) |->
        IF \E k \in 0..(Len(text) - 1) : BytePos(text, k) = p - 1 THEN p - 1 ELSE 0]

\* applyNormalizerWithSpans, for the normalizers drawn here; the result is the
\* normalized text and the offsets array.
applyNormalizerWithSpans(text, n) ==
    CASE n.Type = "Lowercase" ->
           \* one entry is written per rune of the lowercased rune, at normPos
           LET normalized == [k \in 1..Len(text) |-> ToLower(text[k])]
           IN [text |-> normalized,
               offsets |-> [p \in 1..StrLen(normalized) |->
                              IF p <= Len(text) THEN BytePos(text, p - 1) ELSE 0]]
      [] n.Type = "BertNormalizer" ->
           LET kept(r) == ~(r = 0 \/ r = 65533 \/ isControl(r))
               out(r) == IF isWhitespace(r) THEN 32
                         ELSE IF n.Lowercase THEN ToLower(r) ELSE r
               st[k \in 0..Len(text)] ==
                   IF k = 0 THEN [text |-> <<>>, offsets |-> <<>>]
                   ELSE IF kept(text[k])
                        THEN [text |-> Append(st[k - 1].text, out(text[k])),
                              offsets |-> Append(st[k - 1].offsets, BytePos(text, k - 1))]
                        ELSE st[k - 1]
           IN st[Len(text)]
      [] OTHER ->
           \* applyNormalizer leaves the text alone; approximateOffsets with
           \* ratio 1 maps every byte to itself.
           [text |-> text, offsets |-> [p \in 1..StrLen(text) |-> p - 1]]

\* normalizeWithSpans: no normalizer gives the identity mapping.
normalizeWithSpans(t, text) ==
    IF t.Normalizer.Type = "" THEN [text |-> text, offsets |-> IdentityOffsets(text)]
    ELSE applyNormalizerWithSpans(text, t.Normalizer)

\* --------------------------------------------- tokenizers: pre-tokenizers
\* A wordWithOffset.
Word(text, start, end) == [text |-> text, start |-> start, end |-> end]

\* The span the splitters give the word collected since currentStart, when it is
\* flushed before byte position pos (pos < 0: at the end of the text).
FlushedWord(text, offs, current, currentStart, pos, endDefault) ==
    Word(current,
         IF currentStart >= 0 /\ currentStart < Len(offs) THEN offs[currentStart + 1] ELSE 0,
         IF pos < 0 THEN (IF Len(offs) > 0 THEN offs[Len(offs)] + 1 ELSE StrLen(text))
         ELSE IF pos > 0 /\ pos <= Len(offs) THEN offs[pos] + 1 ELSE endDefault)

\* fieldsWithOffsets: split on unicode.IsSpace.
fieldsWithOffsets(text, normOffsets) ==
    LET st[k \in 0..Len(text)] ==
            IF k = 0 THEN [words |-> <<>>, cur |-> <<>>, currentStart |-> -1]
            ELSE LET s == st[k - 1]
                     r == text[k]
                     i == BytePos(text, k - 1)
                 IN IF IsSpace(r)
                    THEN IF s.cur # <<>>
                         THEN [words |-> Append(s.words, FlushedWord(text, normOffsets, s.cur,
                                                        s.currentStart, i, StrLen(text))),
                               cur |-> <<>>, currentStart |-> -1]
                         ELSE s
                    ELSE [words |-> s.words, cur |-> Append(s.cur, r),
                          currentStart |-> IF s.currentStart = -1 THEN i ELSE s.currentStart]
        last == st[Len(text)]
    IN IF last.cur # <<>>
       THEN Append(last.words, FlushedWord(text, normOffsets, last.cur, last.currentStart,
                                           -1, StrLen(text)))
       ELSE last.words

\* The loop bertPreTokenizeWithOffsets (splitSpace) and
\* punctuationPreTokenizeWithOffsets (~splitSpace) share: split on punctuation,
\* each punctuation rune being a word of its own, and on whitespace if asked.
SplitOnPunctuation(text, normOffsets, splitSpace) ==
    LET st[k \in 0..Len(text)] ==
            IF k = 0 THEN [words |-> <<>>, cur |-> <<>>, currentStart |-> -1]
            ELSE LET s == st[k - 1]
                     r == text[k]
                     bytePos == BytePos(text, k - 1)
                     endBytePos == bytePos + RuneLen(r)
                     flushed == IF s.cur # <<>>
                                THEN Append(s.words, FlushedWord(text, normOffsets, s.cur,
                                                        s.currentStart, bytePos, bytePos))
                                ELSE s.words
                 IN IF splitSpace /\ isWhitespace(r)
                    THEN [words |-> flushed, cur |-> <<>>, currentStart |-> -1]
                    ELSE IF isPunctuation(r)
                    THEN [words |-> Append(flushed,
                                     Word(<<r>>,
                                          IF bytePos < Len(normOffsets)
                                          THEN normOffsets[bytePos + 1] ELSE bytePos,
                                          IF endBytePos <= Len(normOffsets)
                                          THEN normOffsets[endBytePos] + 1 ELSE endBytePos)),
                          cur |-> <<>>, currentStart |-> -1]
                    ELSE [words |-> s.words, cur |-> Append(s.cur, r),
                          currentStart |-> IF s.currentStart = -1 THEN bytePos
                                           ELSE s.currentStart]
        last == st[Len(text)]
    IN IF last.cur # <<>>
       THEN Append(last.words, FlushedWord(text, normOffsets, last.cur, last.currentStart,
                                           -1, StrLen(text)))
       ELSE last.words

bertPreTokenizeWithOffsets(text, normOffsets) == SplitOnPunctuation(text, normOffsets, TRUE)

punctuationPreTokenizeWithOffsets(text, normOffsets) ==
    SplitOnPunctuation(text, normOffsets, FALSE)

\* byteLevelPreTokenizeWithOffsets: a space starts a new word; every byte is
\* written as its byteToUnicode rune and recorded with the offset of its rune.
byteLevelPreTokenizeWithOffsets(text, normOffsets) ==
    LET word(s, endDefault) ==
            Word(s.cur,
                 IF s.offs # <<>> THEN s.offs[1] ELSE 0,
                 IF s.offs # <<>> THEN s.offs[Len(s.offs)] + 1 ELSE endDefault)
        st[k \in 0..Len(text)] ==
            IF k = 0 THEN [words |-> <<>>, cur |-> <<>>, offs |-> <<>>]
            ELSE LET s == st[k - 1]
                     r == text[k]
                     i == BytePos(text, k - 1)
                     off == IF i < Len(normOffsets) THEN <<normOffsets[i + 1]>> ELSE <<>>
                     bytes == UTF8(r)
                 IN IF r = 32
                    THEN [words |-> IF s.cur # <<>> THEN Append(s.words, word(s, i))
                                    ELSE s.words,
                          cur |-> <<byteToUnicode(32)>>, offs |-> off]
                    ELSE [words |-> s.words,
                          cur |-> s.cur \o [j \in 1..Len(bytes) |-> byteToUnicode(bytes[j])],
                          offs |-> IF off = <<>> THEN s.offs
                                   ELSE s.offs \o [j \in 1..Len(bytes) |-> off[1]]]
        last == st[Len(text)]
    IN IF last.cur # <<>> THEN Append(last.words, word(last, StrLen(text)))
       ELSE last.words

\* metaspacePreTokenizeWithOffsets: a space closes the word and opens the next
\* one with U+2581.
metaspacePreTokenizeWithOffsets(text0, normOffsets0, addPrefixSpace) ==
    LET prepend == addPrefixSpace /\ text0 # <<>> /\ text0[1] # 32
        text == IF prepend THEN <<32>> \o text0 ELSE text0
        normOffsets == IF prepend THEN <<0>> \o normOffsets0 ELSE normOffsets0
        st[k \in 0..Len(text)] ==
            IF k = 0 THEN [words |-> <<>>, cur |-> <<>>, currentStart |-> -1]
            ELSE LET s == st[k - 1]
                     r == text[k]
                     i == BytePos(text, k - 1)
                 IN IF r = 32
                    THEN [words |-> IF s.cur # <<>>
                                    THEN Append(s.words, FlushedWord(text, normOffsets, s.cur,
                                                            s.currentStart, i, i))
                                    ELSE s.words,
                          cur |-> <<9601>>, currentStart |-> i]
                    ELSE [words |-> s.words, cur |-> Append(s.cur, r),
                          currentStart |-> IF s.currentStart = -1 THEN i ELSE s.currentStart]
        last == st[Len(text)]
    IN IF last.cur # <<>>
       THEN Append(last.words, FlushedWord(text, normOffsets, last.cur, last.currentStart,
                                           -1, StrLen(text)))
       ELSE last.words

RECURSIVE applyPreTokenizerWithSpans(_, _, _)
\* applyPreTokenizerWithSpans: dispatch on the pre-tokenizer type; a Sequence
\* runs each child on every word of the previous one, with offsets start + i.
applyPreTokenizerWithSpans(text, normOffsets, pt) ==
    CASE pt.Type = "BertPreTokenizer" -> bertPreTokenizeWithOffsets(text, normOffsets)
      [] pt.Type \in {"Whitespace", "WhitespaceSplit"} -> fieldsWithOffsets(text, normOffsets)
      [] pt.Type = "ByteLevel" ->
           IF pt.AddPrefixSpace /\ text # <<>> /\ text[1] # 32
           THEN byteLevelPreTokenizeWithOffsets(<<32>> \o text, <<0>> \o normOffsets)
           ELSE byteLevelPreTokenizeWithOffsets(text, normOffsets)
      [] pt.Type = "Metaspace" ->
           metaspacePreTokenizeWithOffsets(text, normOffsets, pt.AddPrefixSpace)
      [] pt.Type = "Sequence" ->
           LET sub(w, child) ==
                   applyPreTokenizerWithSpans(w.text,
                       [i \in 1..StrLen(w.text) |-> w.start + (i - 1)], child)
               res[c \in 0..Len(pt.PreTokenizers)] ==
                   IF c = 0
                   THEN <<Word(text, 0, IF normOffsets # <<>>
                                        THEN normOffsets[Len(normOffsets)] + 1
                                        ELSE StrLen(text))>>
                   ELSE LET prev == res[c - 1]
                            cat[j \in 0..Len(prev)] ==
                                IF j = 0 THEN <<>>
                                ELSE cat[j - 1] \o sub(prev[j], pt.PreTokenizers[c])
                        IN cat[Len(prev)]
           IN res[Len(pt.PreTokenizers)]
      [] pt.Type = "Punctuation" -> punctuationPreTokenizeWithOffsets(text, normOffsets)
      [] OTHER -> fieldsWithOffsets(text, normOffsets)

\* preTokenizeWithSpans: no pre-tokenizer splits on whitespace.
preTokenizeWithSpans(t, text, normOffsets) ==
    IF t.PreTokenizer.Type = "" THEN fieldsWithOffsets(text, normOffsets)
    ELSE applyPreTokenizerWithSpans(text, normOffsets, t.PreTokenizer)

\* ---------------------------------------------------- tokenizers: models
\* An api.TokenSpan.
TokenSpan(start, end) == [Start |-> start, End |-> end]

\* The result of a word tokenizer: ids and spans (nil, nil is the empty pair).
Tokens(ids, spans) == [IDs |-> ids, Spans |-> spans]

\* The default "##" of the continuing-subword prefix.
DefaultPrefix == <<35, 35>>

\* wordPieceTokenizeWithSpans: greedy longest match from the left; a word that is
\* too long or has an unmatched rest is one unk over the whole word, or nothing
\* when there is no unk id.
wordPieceTokenizeWithSpans(t, word) ==
    LET runes == word.text
        charLen == Len(runes)
        maxChars == IF t.tokenizer.Model.MaxInputCharsPerWord = 0 THEN 100
                    ELSE t.tokenizer.Model.MaxInputCharsPerWord
        prefix == IF t.tokenizer.Model.ContinuingSubwordPrefix = <<>> THEN DefaultPrefix
                  ELSE t.tokenizer.Model.ContinuingSubwordPrefix
        whole == IF t.unkID >= 0
                 THEN Tokens(<<t.unkID>>, <<TokenSpan(word.start, word.end)>>)
                 ELSE Tokens(<<>>, <<>>)
        substr(start, end) == IF start > 0 THEN prefix \o SubSeq(runes, start + 1, end)
                              ELSE SubSeq(runes, start + 1, end)
        from[start \in 0..charLen] ==
            IF start = charLen THEN [found |-> TRUE, IDs |-> <<>>, Spans |-> <<>>]
            ELSE LET ends == {e \in (start + 1)..charLen :
                                 substr(start, e) \in DOMAIN t.tokenizer.Model.Vocab}
                 IN IF ends = {} THEN [found |-> FALSE, IDs |-> <<>>, Spans |-> <<>>]
                    ELSE LET end == CHOOSE e \in ends : \A f \in ends : f <= e
                             rest == from[end]
                         IN [found |-> rest.found,
                             IDs |-> <<t.tokenizer.Model.Vocab[substr(start, end)]>> \o rest.IDs,
                             Spans |-> <<TokenSpan(word.start + BytePos(runes, start),
                                                   word.start + BytePos(runes, end))>>
                                       \o rest.Spans]
    IN IF runes = <<>> THEN Tokens(<<>>, <<>>)
       ELSE IF StrLen(runes) > maxChars THEN whole
       ELSE IF from[0].found THEN Tokens(from[0].IDs, from[0].Spans)
       ELSE whole

\* strings.Replace(pair, " ", "", 1)
RemoveFirstSpace(s) ==
    IF \E i \in 1..Len(s) : s[i] = 32
    THEN LET i == CHOOSE i \in 1..Len(s) : s[i] = 32 /\ \A j \in 1..(i - 1) : s[j] # 32
         IN SubSeq(s, 1, i - 1) \o SubSeq(s, i + 1, Len(s))
    ELSE s

RECURSIVE bpeMerge(_, _)
\* The merge loop of bpeTokenizeWithSpans: while a pair of adjacent symbols has a
\* rank, merge the first pair of the smallest rank.
bpeMerge(mergeRanks, symbols) ==
    LET pair(i) == symbols[i].text \o <<32>> \o symbols[i + 1].text
        ranked == {i \in 1..(Len(symbols) - 1) : pair(i) \in DOMAIN mergeRanks}
    IN IF Len(symbols) <= 1 \/ ranked = {} THEN symbols
       ELSE LET bestIdx == CHOOSE i \in ranked :
                               \A j \in ranked :
                                   \/ mergeRanks[pair(i)] < mergeRanks[pair(j)]
                                   \/ (mergeRanks[pair(i)] = mergeRanks[pair(j)] /\ i <= j)
                merged == [text |-> RemoveFirstSpace(pair(bestIdx)),
                           start |-> symbols[bestIdx].start,
                           end |-> symbols[bestIdx + 1].end]
            IN bpeMerge(mergeRanks,
                        SubSeq(symbols, 1, bestIdx - 1) \o <<merged>>
                            \o SubSeq(symbols, bestIdx + 2, Len(symbols)))

\* bpeTokenizeWithSpans: one symbol per rune, the end-of-word suffix on the last,
\* merged; a symbol outside the vocabulary is unk, or skipped without unk id.
bpeTokenizeWithSpans(t, word) ==
    LET runes == word.text
        suffix == t.tokenizer.Model.EndOfWordSuffix
        symbols0 == [i \in 1..Len(runes) |->
                        [text |-> IF i = Len(runes) THEN <<runes[i]>> \o suffix
                                  ELSE <<runes[i]>>,
                         start |-> i - 1, end |-> i]]
        symbols == bpeMerge(t.mergeRanks, symbols0)
        vocab == t.tokenizer.Model.Vocab
        out[k \in 0..Len(symbols)] ==
            IF k = 0 THEN Tokens(<<>>, <<>>)
            ELSE LET sym == symbols[k]
                     span == TokenSpan(word.start + BytePos(runes, sym.start),
                                       word.start + BytePos(runes, sym.end))
                 IN IF sym.text \in DOMAIN vocab
                    THEN Tokens(Append(out[k - 1].IDs, vocab[sym.text]),
                                Append(out[k - 1].Spans, span))
                    ELSE IF t.unkID >= 0
                    THEN Tokens(Append(out[k - 1].IDs, t.unkID), Append(out[k - 1].Spans, span))
                    ELSE out[k - 1]
    IN IF runes = <<>> THEN Tokens(<<>>, <<>>)
       ELSE IF Len(symbols0) = 1 /\ symbols0[1].text \in DOMAIN vocab
       THEN Tokens(<<vocab[symbols0[1].text]>>, <<TokenSpan(word.start, word.end)>>)
       ELSE out[Len(symbols)]

\* unigramTokenizeWithSpans: greedy longest match from the left; an unmatched
\* rune is one unk when there is an unk id, and its span is appended either way.
unigramTokenizeWithSpans(t, word) ==
    LET runes == word.text
        runeLen == Len(runes)
        vocab == t.tokenizer.Model.Vocab
        from[start \in 0..runeLen] ==
            IF start = runeLen THEN Tokens(<<>>, <<>>)
            ELSE LET ends == {e \in (start + 1)..runeLen :
                                 SubSeq(runes, start + 1, e) \in DOMAIN vocab}
                 IN IF ends # {}
                    THEN LET end == CHOOSE e \in ends : \A f \in ends : f <= e
                         IN Tokens(<<vocab[SubSeq(runes, start + 1, end)]>> \o from[end].IDs,
                                   <<TokenSpan(word.start + BytePos(runes, start),
                                               word.start + BytePos(runes, end))>>
                                   \o from[end].Spans)
                    ELSE Tokens((IF t.unkID >= 0 THEN <<t.unkID>> ELSE <<>>)
                                    \o from[start + 1].IDs,
                                <<TokenSpan(word.start + BytePos(runes, start),
                                            word.start + BytePos(runes, start + 1))>>
                                    \o from[start + 1].Spans)
    IN from[0]

\* tokenizeWordWithSpans: a word that is an added token is that token; otherwise
\* the model tokenizes it.
tokenizeWordWithSpans(t, word) ==
    LET whole(id) == Tokens(<<id>>, <<TokenSpan(word.start, word.end)>>)
    IN IF word.text \in DOMAIN t.addedTokens THEN whole(t.addedTokens[word.text])
       ELSE CASE t.tokenizer.Model.Type = "WordPiece" -> wordPieceTokenizeWithSpans(t, word)
              [] t.tokenizer.Model.Type = "BPE" -> bpeTokenizeWithSpans(t, word)
              [] t.tokenizer.Model.Type = "Unigram" -> unigramTokenizeWithSpans(t, word)
              [] OTHER ->
                   IF word.text \in DOMAIN t.tokenizer.Model.Vocab
                   THEN whole(t.tokenizer.Model.Vocab[word.text])
                   ELSE IF t.unkID >= 0 THEN whole(t.unkID)
                   ELSE Tokens(<<>>, <<>>)

\* Tokenizer.EncodeWithSpans: normalize, pre-tokenize, tokenize each word and
\* append its ids and its spans.
EncodeWithSpans(t, text) ==
    LET norm == normalizeWithSpans(t.tokenizer, text)
        words == preTokenizeWithSpans(t.tokenizer, norm.text, norm.offsets)
        acc[k \in 0..Len(words)] ==
            IF k = 0 THEN Tokens(<<>>, <<>>)
            ELSE LET w == tokenizeWordWithSpans(t, words[k])
                 IN Tokens(acc[k - 1].IDs \o w.IDs, acc[k - 1].Spans \o w.Spans)
    IN acc[Len(words)]

\* Mutant of Encode: a second code path that tokenizes the text without
\* normalizing it.
Encode_OwnPath(t, text) ==
    EncodeWithSpans([t EXCEPT !.tokenizer.Normalizer.Type = ""], text).IDs

\* Tokenizer.Encode: the ids of EncodeWithSpans.
Encode(t, text) == EncodeWithSpans(t, text).IDs

\* ------------------------------------------- tokenizers: construction
\* The canonical contents resolveSpecialTokens recognizes.
UnkContents == {<<91, 85, 78, 75, 93>>, <<60, 117, 110, 107, 62>>}
PadContents == {<<91, 80, 65, 68, 93>>, <<60, 112, 97, 100, 62>>}
ClsContents == {<<91, 67, 76, 83, 93>>, <<60, 115, 62>>}
SepContents == {<<91, 83, 69, 80, 93>>, <<60, 47, 115, 62>>}
MaskContents == {<<91, 77, 65, 83, 75, 93>>, <<60, 109, 97, 115, 107, 62>>}

\* resolveSpecialTokens: the unk token of the model, then the special added
\* tokens in order, then the tokens of the config for the slots still at -1.
resolveSpecialTokens(config, tj) ==
    LET vocab == tj.Model.Vocab
        first == [unkID |-> IF tj.Model.UnkToken # <<>> /\ tj.Model.UnkToken \in DOMAIN vocab
                            THEN vocab[tj.Model.UnkToken] ELSE -1,
                  padID |-> -1, bosID |-> -1, eosID |-> -1, clsID |-> -1, sepID |-> -1,
                  maskID |-> -1]
        canonical(s, at) ==
            CASE at.Content \in UnkContents -> [s EXCEPT !.unkID = at.ID]
              [] at.Content \in PadContents -> [s EXCEPT !.padID = at.ID]
              [] at.Content \in ClsContents -> [s EXCEPT !.clsID = at.ID]
              [] at.Content \in SepContents -> [s EXCEPT !.sepID = at.ID]
              [] at.Content \in MaskContents -> [s EXCEPT !.maskID = at.ID]
              [] OTHER -> s
        fromConfig(s, at) ==
            IF config.isNil THEN s
            ELSE [s EXCEPT !.bosID = IF at.Content = config.BosToken THEN at.ID ELSE @,
                           !.eosID = IF at.Content = config.EosToken THEN at.ID ELSE @]
        walk[k \in 0..Len(tj.AddedTokens)] ==
            IF k = 0 THEN first
            ELSE IF ~tj.AddedTokens[k].Special THEN walk[k - 1]
            ELSE fromConfig(canonical(walk[k - 1], tj.AddedTokens[k]), tj.AddedTokens[k])
        s == walk[Len(tj.AddedTokens)]
        fallback(id, token) ==
            IF id = -1 /\ token # <<>> /\ token \in DOMAIN vocab THEN vocab[token] ELSE id
    IN IF config.isNil THEN s
       ELSE [unkID |-> fallback(s.unkID, config.UnkToken),
             padID |-> fallback(s.padID, config.PadToken),
             clsID |-> fallback(s.clsID, config.ClsToken),
             sepID |-> fallback(s.sepID, config.SepToken),
             maskID |-> fallback(s.maskID, config.MaskToken),
             bosID |-> fallback(s.bosID, config.BosToken),
             eosID |-> fallback(s.eosID, config.EosToken)]

\* NewFromContent: the reverse vocabulary, overwritten by the added tokens in
\* order, the added-token lookup, the merge ranks of a BPE model and the special
\* ids.  (The vocabularies drawn give every id to one token, so the order in
\* which the vocabulary is walked does not show.)
NewFromContent(config, tj) ==
    LET vocab == tj.Model.Vocab
        added == tj.AddedTokens
        lastWith(P(_)) == CHOOSE k \in 1..Len(added) :
                              P(added[k]) /\ \A j \in (k + 1)..Len(added) : ~P(added[j])
        vocabIDs == {vocab[tok] : tok \in DOMAIN vocab}
        addedIDs == {added[k].ID : k \in 1..Len(added)}
        special == resolveSpecialTokens(config, tj)
    IN [config |-> config,
        tokenizer |-> tj,
        idToToken |-> [id \in vocabIDs \cup addedIDs |->
                         IF id \in addedIDs
                         THEN LET is(at) == at.ID = id IN added[lastWith(is)].Content
                         ELSE CHOOSE tok \in DOMAIN vocab : vocab[tok] = id],
        addedTokens |-> [c \in {added[k].Content : k \in 1..Len(added)} |->
                           LET is(at) == at.Content = c IN added[lastWith(is)].ID],
        mergeRanks |-> IF tj.Model.Type = "BPE"
                       THEN [m \in {tj.Model.Merges[i] : i \in 1..Len(tj.Model.Merges)} |->
                               (CHOOSE i \in 1..Len(tj.Model.Merges) :
                                   /\ tj.Model.Merges[i] = m
                                   /\ \A j \in (i + 1)..Len(tj.Model.Merges) :
                                         tj.Model.Merges[j] # m) - 1]
                       ELSE <<>>,
        unkID |-> special.unkID, padID |-> special.padID, bosID |-> special.bosID,
        eosID |-> special.eosID, clsID |-> special.clsID, sepID |-> special.sepID,
        maskID |-> special.maskID]

\* ---------------------------------------------------- tokenizers: decode
HasPrefix(s, prefix) == Len(s) >= Len(prefix) /\ SubSeq(s, 1, Len(prefix)) = prefix

\* wordPieceDecode and defaultDecode, which differ in where the prefix comes
\* from: a token with the prefix is appended without it, any other token after a
\* space (none before the first token).
wordPieceJoin(tokens, prefix0) ==
    LET prefix == IF prefix0 = <<>> THEN DefaultPrefix ELSE prefix0
        out[i \in 0..Len(tokens)] ==
            IF i = 0 THEN <<>>
            ELSE IF HasPrefix(tokens[i], prefix)
                 THEN out[i - 1] \o SubSeq(tokens[i], Len(prefix) + 1, Len(tokens[i]))
                 ELSE out[i - 1] \o (IF i > 1 THEN <<32>> ELSE <<>>) \o tokens[i]
    IN out[Len(tokens)]

defaultDecode(t, tokens) == wordPieceJoin(tokens, t.tokenizer.Model.ContinuingSubwordPrefix)

\* Mutant of wordPieceDecode: the continuation prefix is not recognized.
wordPieceDecode_NoPrefix(t, tokens) == wordPieceJoin(tokens, <<0>>)

wordPieceDecode(t, tokens) == wordPieceJoin(tokens, t.tokenizer.Decoder.Prefix)

\* strings.HasSuffix
HasSuffix(s, suffix) ==
    Len(s) >= Len(suffix) /\ SubSeq(s, Len(s) - Len(suffix) + 1, Len(s)) = suffix

\* Mutant of bpeDecode: a space follows the last token too.
bpeDecode_SpaceAfterLast(t, tokens) ==
    LET suffix == t.tokenizer.Model.EndOfWordSuffix
        out[i \in 0..Len(tokens)] ==
            IF i = 0 THEN <<>>
            ELSE IF suffix # <<>> /\ HasSuffix(tokens[i], suffix)
                 THEN out[i - 1] \o SubSeq(tokens[i], 1, Len(tokens[i]) - Len(suffix)) \o <<32>>
                 ELSE out[i - 1] \o tokens[i]
    IN out[Len(tokens)]

\* bpeDecode: the tokens in a row; a token that ends with the end-of-word suffix
\* loses it and, unless it is the last, is followed by a space.
bpeDecode(t, tokens) ==
    LET suffix == t.tokenizer.Model.EndOfWordSuffix
        out[i \in 0..Len(tokens)] ==
            IF i = 0 THEN <<>>
            ELSE IF suffix # <<>> /\ HasSuffix(tokens[i], suffix)
                 THEN out[i - 1] \o SubSeq(tokens[i], 1, Len(tokens[i]) - Len(suffix))
                          \o (IF i < Len(tokens) THEN <<32>> ELSE <<>>)
                 ELSE out[i - 1] \o tokens[i]
    IN out[Len(tokens)]

\* Tokenizer.Decode: the tokens of the known ids, joined by the decoder.
Decode(t, ids) ==
    LET known == SelectSeq(ids, LAMBDA id : id \in DOMAIN t.idToToken)
        tokens == [i \in 1..Len(known) |-> t.idToToken[known[i]]]
    IN CASE t.tokenizer.Decoder.Type = "WordPiece" -> wordPieceDecode(t, tokens)
         [] t.tokenizer.Decoder.Type = "BPEDecoder" -> bpeDecode(t, tokens)
         [] OTHER -> defaultDecode(t, tokens)

\* ------------------------------------------- tokenizers: special tokens
SpecialTokens ==
    {"TokUnknown", "TokPad", "TokBeginningOfSentence", "TokEndOfSentence", "TokMask",
     "TokClassification"}

\* The result of SpecialTokenID: an id with a nil error, or an error.
SpecialID(id) == [id |-> id, err |-> NoErr]
SpecialNotFound == [id |-> 0, err |-> "special_token_not_found"]

\* Tokenizer.SpecialTokenID of the tokenizer.json tokenizer.
SpecialTokenID(t, token) ==
    CASE token = "TokUnknown" /\ t.unkID >= 0 -> SpecialID(t.unkID)
      [] token = "TokPad" /\ t.padID >= 0 -> SpecialID(t.padID)
      [] token = "TokBeginningOfSentence" /\ t.bosID >= 0 -> SpecialID(t.bosID)
      [] token = "TokBeginningOfSentence" /\ t.bosID < 0 /\ t.clsID >= 0 -> SpecialID(t.clsID)
      [] token = "TokEndOfSentence" /\ t.eosID >= 0 -> SpecialID(t.eosID)
      [] token = "TokEndOfSentence" /\ t.eosID < 0 /\ t.sepID >= 0 -> SpecialID(t.sepID)
      [] token = "TokMask" /\ t.maskID >= 0 -> SpecialID(t.maskID)
      [] token = "TokClassification" /\ t.clsID >= 0 -> SpecialID(t.clsID)
      [] OTHER -> SpecialNotFound

\* ------------------------------------------- tokenizers: SentencePiece
RECURSIVE Bytes(_)
\* []byte(s)
Bytes(s) == IF s = <<>> THEN <<>> ELSE UTF8(Head(s)) \o Bytes(Tail(s))

\* Processor.Encode of the SentencePiece library: a function of the text, given
\* with the processor.
ProcessorEncode(p, text) == p.Encode[text]

\* sentencepiece Tokenizer.Encode: the ids of the processor's tokens.
SPEncode(p, text) ==
    LET tokens == ProcessorEncode(p, text)
    IN [i \in 1..Len(tokens) |-> tokens[i].ID]

\* findSubstring over the bytes of s, -1 when substr is not found from start.
findSubstring(s, substr, start) ==
    LET at == {i \in start..(Len(s) - Len(substr)) :
                  SubSeq(s, i + 1, i + Len(substr)) = substr}
    IN IF start >= Len(s) \/ at = {} THEN -1
       ELSE CHOOSE i \in at : \A j \in at : i <= j

\* sentencepiece Tokenizer.EncodeWithSpans: the processor's ids, and spans
\* reconstructed by looking each piece up in the text from a moving position.
SPEncodeWithSpans(p, text0) ==
    LET tokens == ProcessorEncode(p, text0)
        text == Bytes(text0)
        space(b) == b \in {32, 9, 10, 13}
        RECURSIVE skip(_)
        skip(pos) == IF pos < Len(text) /\ space(text[pos + 1]) THEN skip(pos + 1) ELSE pos
        st[i \in 0..Len(tokens)] ==
            IF i = 0 THEN [pos |-> 0, spans |-> <<>>]
            ELSE LET piece == Bytes(tokens[i].Text)
                     hasLeadingSpace == Len(piece) >= 3 /\ SubSeq(piece, 1, 3) = <<226, 150, 129>>
                     matchPiece == IF hasLeadingSpace THEN SubSeq(piece, 4, Len(piece)) ELSE piece
                     pos == IF hasLeadingSpace THEN skip(st[i - 1].pos) ELSE st[i - 1].pos
                     foundAt == findSubstring(text, matchPiece, pos)
                     advanced == IF pos + Len(matchPiece) > Len(text) THEN Len(text)
                                 ELSE pos + Len(matchPiece)
                 IN IF matchPiece = <<>>
                    THEN [pos |-> pos,
                          spans |-> Append(st[i - 1].spans,
                                           IF hasLeadingSpace /\ pos > 0
                                           THEN TokenSpan(pos - 1, pos)
                                           ELSE TokenSpan(pos, pos))]
                    ELSE IF foundAt >= 0
                    THEN [pos |-> foundAt + Len(matchPiece),
                          spans |-> Append(st[i - 1].spans,
                                           TokenSpan(foundAt, foundAt + Len(matchPiece)))]
                    ELSE [pos |-> advanced,
                          spans |-> Append(st[i - 1].spans, TokenSpan(pos, advanced))]
    IN Tokens([i \in 1..Len(tokens) |-> tokens[i].ID], st[Len(tokens)].spans)

\* sentencepiece Tokenizer.SpecialTokenID: the id the model info holds.
SPSpecialTokenID(p, token) ==
    CASE token = "TokUnknown" -> SpecialID(p.Info.UnknownID)
      [] token = "TokPad" -> SpecialID(p.Info.PadID)
      [] token = "TokBeginningOfSentence" -> SpecialID(p.Info.BeginningOfSentenceID)
      [] token = "TokEndOfSentence" -> SpecialID(p.Info.EndOfSentenceID)
      [] OTHER -> [id |-> 0, err |-> "unknown_special_token"]

\* --------------------------------------------- tokenizers: calls and inputs
\* The result of a tokenizer call.
Called(op, ids, spans, text) == [op |-> op, IDs |-> ids, Spans |-> spans, Text |-> text]

\* hftokenizer.NewFromContent on the descriptor drawn.
CallNewFromContent ==
    /\ impl = "hftokenizer"
    /\ rdIn.tok = Nil
    /\ rdIn' = [rdIn EXCEPT !.tok = NewFromContent(rdIn.config, rdIn.tj)]
    /\ UNCHANGED <<rdRes, impl, repoVars, modelVars, iterVars, getVars, ggufVars>>

CallEncodeWithSpans ==
    /\ impl = "hftokenizer"
    /\ rdIn.tok # Nil
    /\ LET r == EncodeWithSpans(rdIn.tok, rdIn.text)
       IN rdRes' = Called("EncodeWithSpans", r.IDs, r.Spans, <<>>)
    /\ UNCHANGED <<rdIn, impl, repoVars, modelVars, iterVars, getVars, ggufVars>>

CallEncode ==
    /\ impl = "hftokenizer"
    /\ rdIn.tok # Nil
    /\ rdRes' = Called("Encode", Encode(rdIn.tok, rdIn.text), <<>>, <<>>)
    /\ UNCHANGED <<rdIn, impl, repoVars, modelVars, iterVars, getVars, ggufVars>>

\* Decode of the ids the last Encode returned.
CallDecode ==
    /\ impl = "hftokenizer"
    /\ rdRes # Nil
    /\ rdRes.op = "Encode"
    /\ rdRes' = Called("Decode", rdRes.IDs, <<>>, Decode(rdIn.tok, rdRes.IDs))
    /\ UNCHANGED <<rdIn, impl, repoVars, modelVars, iterVars, getVars, ggufVars>>

SPCallEncodeWithSpans ==
    /\ impl = "sentencepiece"
    /\ LET r == SPEncodeWithSpans(rdIn.tok, rdIn.text)
       IN rdRes' = Called("EncodeWithSpans", r.IDs, r.Spans, <<>>)
    /\ UNCHANGED <<rdIn, impl, repoVars, modelVars, iterVars, getVars, ggufVars>>

SPCallEncode ==
    /\ impl = "sentencepiece"
    /\ rdRes' = Called("Encode", SPEncode(rdIn.tok, rdIn.text), <<>>, <<>>)
    /\ UNCHANGED <<rdIn, impl, repoVars, modelVars, iterVars, getVars, ggufVars>>

\* The function with the given <<key, value>> pairs.
MapOf(pairs) == [k \in {p[1] : p \in pairs} |-> (CHOOSE p \in pairs : p[1] = k)[2]]

\* The runes of the input texts: a, space, E-acute (upper case, two bytes), full
\* stop and a control character.
InputRunes == {97, 32, 201, 46, 1}

Texts == UNION {[1..n -> InputRunes] : n \in 0..MaxText}

UnkToken == <<91, 85, 78, 75, 93>>

\* A vocabulary with word pieces, byte-level pieces and metaspace pieces:
\* [UNK], a, ##a, e-acute, ##e-acute, full stop, G-dot, G-dot a, U+2581,
\* U+2581 a, the two byte-level runes of e-acute, aa.
TextVocab ==
    MapOf({<<UnkToken, 0>>, <<<<97>>, 1>>, <<<<35, 35, 97>>, 2>>, <<<<233>>, 3>>,
           <<<<35, 35, 233>>, 4>>, <<<<46>>, 5>>, <<<<288>>, 6>>, <<<<288, 97>>, 7>>,
           <<<<9601>>, 8>>, <<<<9601, 97>>, 9>>, <<<<195, 169>>, 10>>, <<<<97, 97>>, 11>>})

\* The merges "G-dot a", "A-tilde copyright" and "a a".
TextMerges == <<<<288, 32, 97>>, <<195, 32, 169>>, <<97, 32, 97>>>>

NoConfig ==
    [isNil |-> TRUE, UnkToken |-> <<>>, PadToken |-> <<>>, ClsToken |-> <<>>,
     SepToken |-> <<>>, MaskToken |-> <<>>, BosToken |-> <<>>, EosToken |-> <<>>]

Stage(type) == [Type |-> type, Lowercase |-> TRUE, AddPrefixSpace |-> TRUE, PreTokenizers |-> <<>>]

\* A TokenizerJSON.
Descriptor(normalizer, preTokenizer, type, unk, added) ==
    [Normalizer |-> normalizer,
     PreTokenizer |-> preTokenizer,
     Decoder |-> [Type |-> IF type = "WordPiece" THEN "WordPiece" ELSE "", Prefix |-> <<>>],
     AddedTokens |-> added,
     Model |-> [Type |-> type, Vocab |-> TextVocab, Merges |-> TextMerges, UnkToken |-> unk,
                ContinuingSubwordPrefix |-> <<>>, MaxInputCharsPerWord |-> 0,
                EndOfWordSuffix |-> <<>>]]

Normalizers == {Stage(""), Stage("Lowercase"), Stage("BertNormalizer")}

PreTokenizers ==
    {Stage(""), Stage("BertPreTokenizer"), Stage("ByteLevel"), Stage("Metaspace"),
     [Stage("Sequence") EXCEPT !.PreTokenizers = <<Stage("Whitespace"), Stage("ByteLevel")>>]}

ModelTypes == {"WordPiece", "BPE", "Unigram"}

\* The SentencePiece pieces of a text: one piece per rune, a space becoming the
\* U+2581 that opens the next piece (merged) or a piece of its own (~merged).
SPPieces(text, merged) ==
    LET id(piece) == StrLen(piece) + (piece[Len(piece)] % 7)
        st[k \in 0..Len(text)] ==
            IF k = 0 THEN [out |-> <<>>, lead |-> <<9601>>]
            ELSE IF text[k] = 32
                 THEN [out |-> IF merged THEN st[k - 1].out
                               ELSE st[k - 1].out \o <<<<9601>>>>,
                       lead |-> IF merged THEN <<9601>> ELSE <<>>]
                 ELSE [out |-> Append(st[k - 1].out, st[k - 1].lead \o <<text[k]>>),
                       lead |-> <<>>]
        pieces == st[Len(text)].out
    IN [i \in 1..Len(pieces) |-> [ID |-> id(pieces[i]), Text |-> pieces[i]]]

SPInfo == [UnknownID |-> 0, PadID |-> -1, BeginningOfSentenceID |-> 1, EndOfSentenceID |-> 2]

InitTok ==
    /\ NothingLoaded
    /\ rdRes = Nil
    /\ \/ /\ impl = "hftokenizer"
          /\ \E n \in Normalizers, p \in PreTokenizers, m \in ModelTypes, u \in {<<>>, UnkToken},
                text \in Texts :
                rdIn = [config |-> NoConfig, tj |-> Descriptor(n, p, m, u, <<>>),
                        text |-> text, tok |-> Nil]
       \/ /\ impl = "sentencepiece"
          /\ \E text \in Texts, merged \in BOOLEAN :
                rdIn = [config |-> NoConfig, tj |-> Nil, text |-> text,
                        tok |-> [Encode |-> MapOf({<<text, SPPieces(text, merged)>>}),
                                 Info |-> SPInfo]]

NextTok ==
    \/ CallNewFromContent
    \/ CallEncodeWithSpans
    \/ CallEncode
    \/ CallDecode
    \/ SPCallEncodeWithSpans
    \/ SPCallEncode

SpecTok == InitTok /\ [][NextTok]_vars

\* ------------------------------------------- tokenizers: lists of words
\* The words of the input lists: a, aa, a e-acute, e-acute, and two words with
\* a letter the vocabulary does not hold, b and ab.
InputWords == {<<97>>, <<97, 97>>, <<97, 233>>, <<233>>, <<98>>, <<97, 98>>}

\* strings.Join(words, " ")
JoinWords(words) ==
    LET out[i \in 0..Len(words)] ==
            IF i = 0 THEN <<>>
            ELSE out[i - 1] \o (IF i > 1 THEN <<32>> ELSE <<>>) \o words[i]
    IN out[Len(words)]

\* A WordPiece descriptor and the text of a list of words, before NewFromContent.
InitWords ==
    /\ NothingLoaded
    /\ rdRes = Nil
    /\ impl = "hftokenizer"
    /\ \E n \in Normalizers, p \in {Stage(""), Stage("BertPreTokenizer")}, u \in {<<>>, UnkToken},
          words \in UNION {[1..k -> InputWords] : k \in 1..MaxWords} :
          rdIn = [config |-> NoConfig, tj |-> Descriptor(n, p, "WordPiece", u, <<>>),
                  text |-> JoinWords(words), tok |-> Nil, words |-> words]

NextWords == CallNewFromContent \/ CallEncode \/ CallDecode

SpecWords == InitWords /\ [][NextWords]_vars

\* --------------------------------- tokenizers: added and special tokens
AddedToken(id, content, special) == [ID |-> id, Content |-> content, Special |-> special]

\* The added tokens drawn: [CLS], [SEP], [PAD] and <bos> as special tokens,
\* and the content "a" of the vocabulary under a new id and under its own id.
AddedChoices ==
    {AddedToken(100, <<91, 67, 76, 83, 93>>, TRUE),
     AddedToken(101, <<91, 83, 69, 80, 93>>, TRUE),
     AddedToken(102, <<91, 80, 65, 68, 93>>, TRUE),
     AddedToken(103, <<60, 98, 111, 115, 62>>, TRUE),
     AddedToken(50, <<97>>, FALSE),
     AddedToken(1, <<97>>, FALSE)}

\* A config whose bos_token is <bos> and whose eos_token is the full stop of the
\* vocabulary.
BosConfig == [NoConfig EXCEPT !.isNil = FALSE, !.BosToken = <<60, 98, 111, 115, 62>>,
                              !.EosToken = <<46>>]

\* The result of a SpecialTokenID call.
CalledSpecial(token, r) == [op |-> "SpecialTokenID", token |-> token, id |-> r.id, err |-> r.err]

CallSpecialTokenID ==
    /\ impl = "hftokenizer"
    /\ rdIn.tok # Nil
    /\ \E token \in SpecialTokens :
          rdRes' = CalledSpecial(token, SpecialTokenID(rdIn.tok, token))
    /\ UNCHANGED <<rdIn, impl, repoVars, modelVars, iterVars, getVars, ggufVars>>

SPCallSpecialTokenID ==
    /\ impl = "sentencepiece"
    /\ \E token \in SpecialTokens :
          rdRes' = CalledSpecial(token, SPSpecialTokenID(rdIn.tok, token))
    /\ UNCHANGED <<rdIn, impl, repoVars, modelVars, iterVars, getVars, ggufVars>>

\* A descriptor with added tokens and a config before NewFromContent, or a
\* SentencePiece model whose info holds -1 for the ids the model does not have.
InitSpecial ==
    /\ NothingLoaded
    /\ rdRes = Nil
    /\ \/ /\ impl = "hftokenizer"
          /\ \E config \in {NoConfig, BosConfig}, u \in {<<>>, UnkToken},
                added \in UNION {[1..k -> AddedChoices] : k \in 0..MaxAdded} :
                rdIn = [config |-> config,
                        tj |-> Descriptor(Stage(""), Stage(""), "WordPiece", u, added),
                        text |-> <<>>, tok |-> Nil]
       \/ /\ impl = "sentencepiece"
          /\ \E pad \in {-1, 3}, bos \in {-1, 1}, eos \in {-1, 2} :
                rdIn = [config |-> NoConfig, tj |-> Nil, text |-> <<>>,
                        tok |-> [Encode |-> MapOf({<<<<>>, <<>>>>}),
                                 Info |-> [UnknownID |-> 0, PadID |-> pad,
                                           BeginningOfSentenceID |-> bos,
                                           EndOfSentenceID |-> eos]]]

NextSpecial == CallNewFromContent \/ CallSpecialTokenID \/ SPCallSpecialTokenID

SpecSpecial == InitSpecial /\ [][NextSpecial]_vars

\* ------------------------------------------- concurrent read-only calls
\* Model.ListTensorNames: the names of the weight map, in the order of a map
\* iteration.
ListTensorNames == Perms(DOMAIN Index.WeightMap)

\* Model.GetSafetensor: the header of a .safetensors file of the repo.
GetSafetensor(filename) ==
    IF Ext(filename) # ".safetensors" THEN [err |-> "not_safetensors", Header |-> Nil]
    ELSE LET dl == DownloadFile(filename) IN
         IF dl.err # NoErr THEN [err |-> dl.err, Header |-> Nil]
         ELSE LET ph == parseHeader(LocalFile(dl.localPath))
              IN IF ph.err # NoErr THEN [err |-> ph.err, Header |-> Nil]
                 ELSE [err |-> NoErr, Header |-> ph.header]

\* Model.GetTensorMetadata
GetTensorMetadata(tensorName) ==
    LET fn == GetTensorFilename(tensorName) IN
    IF fn.err # NoErr THEN [err |-> fn.err, meta |-> Nil]
    ELSE LET st == GetSafetensor(fn.filename) IN
         IF st.err # NoErr THEN [err |-> st.err, meta |-> Nil]
         ELSE IF tensorName \notin DOMAIN st.Header.Tensors
              THEN [err |-> "not_in_file", meta |-> Nil]
              ELSE [err |-> NoErr, meta |-> st.Header.Tensors[tensorName]]

\* Model.GetTensor: its result and whether it opened a reader.
GetTensorResult(tensorName) ==
    LET fn == GetTensorFilename(tensorName) IN
    IF fn.err # NoErr
    THEN [op |-> "GetTensor", name |-> tensorName, err |-> fn.err, bytes |-> <<>>,
          file |-> <<>>, opened |-> FALSE]
    ELSE LET g == GetTensorFromFile(fn.filename, tensorName)
         IN [op |-> "GetTensor", name |-> tensorName, err |-> g.err, bytes |-> g.bytes,
             file |-> fn.filename, opened |-> g.opened]

\* Model.GetTensor called while an iteration may be under way.
CallGetTensor ==
    /\ impl = "safetensors"
    /\ getCount < MaxGets
    /\ \E tensorName \in TensorNames :
         LET g == GetTensorResult(tensorName) IN
         /\ getRes' = [op |-> g.op, name |-> g.name, err |-> g.err, bytes |-> g.bytes]
         /\ getOpen' = IF g.opened THEN [getOpen EXCEPT ![g.file] = @ + 1] ELSE getOpen
    /\ getCount' = getCount + 1
    /\ UNCHANGED <<impl, repoVars, modelVars, iterVars, readVars, ggufVars>>

CallListTensorNames ==
    /\ impl = "safetensors"
    /\ \E names \in ListTensorNames :
          getRes' = [op |-> "ListTensorNames", names |-> names]
    /\ UNCHANGED <<getOpen, getCount, impl, repoVars, modelVars, iterVars, readVars, ggufVars>>

CallGetTensorMetadata ==
    /\ impl = "safetensors"
    /\ \E tensorName \in TensorNames :
         LET r == GetTensorMetadata(tensorName)
         IN getRes' = [op |-> "GetTensorMetadata", name |-> tensorName, err |-> r.err,
                       meta |-> r.meta]
    /\ UNCHANGED <<getOpen, getCount, impl, repoVars, modelVars, iterVars, readVars, ggufVars>>

\* The orders sort.Slice, which is not stable, can leave a slice in.
SortedByID(tokens) ==
    {[i \in 1..Len(tokens) |-> tokens[p[i]]] :
        p \in {q \in Perms(1..Len(tokens)) :
                  \A i, j \in 1..Len(tokens) : i < j => tokens[q[i]].ID <= tokens[q[j]].ID}}

\* Mutant of AddedTokensList: the tokenizer's own slice is sorted.
AddedTokensList_InPlace(t) ==
    {[result |-> s, AddedTokens |-> s] : s \in SortedByID(t.tokenizer.AddedTokens)}

\* Tokenizer.AddedTokensList: a sorted copy, and the slice of the tokenizer
\* after the call.
AddedTokensList(t) ==
    {[result |-> s, AddedTokens |-> t.tokenizer.AddedTokens] :
        s \in SortedByID(t.tokenizer.AddedTokens)}

CallAddedTokensList ==
    /\ impl = "hftokenizer"
    /\ rdIn.tok # Nil
    /\ \E r \in AddedTokensList(rdIn.tok) :
          /\ rdRes' = [op |-> "AddedTokensList", result |-> r.result]
          /\ rdIn' = [rdIn EXCEPT !.tok.tokenizer.AddedTokens = r.AddedTokens]
    /\ UNCHANGED <<impl, repoVars, modelVars, iterVars, getVars, ggufVars>>

\* A loaded model whose shards are all readable (the tensor a may be missing
\* from its shard), or a constructed tokenizer, before any read-only call.
InitReadOnly ==
    /\ rdRes = Nil
    /\ \/ /\ impl = "safetensors"
          /\ ModelIdle
          /\ GGUFIdle
          /\ rdIn = Nil
          /\ ShardedLoaded
          /\ DOMAIN Index.WeightMap = TensorNames
          /\ Index.WeightMap["a"] = Shard1
          /\ Index.WeightMap["c"] = Shard2
          /\ DOMAIN repoFiles = Shards
          /\ \A s \in Shards : repoFiles[s].json /\ repoFiles[s].mappable /\ repoFiles[s].data # <<>>
          /\ \A n \in TensorNames \ {"a"} : n \in DOMAIN repoFiles[Index.WeightMap[n]].tensors
       \/ /\ impl = "hftokenizer"
          /\ NothingLoaded
          /\ \E config \in {NoConfig, BosConfig}, text \in {<<>>, <<97, 97, 32, 201, 46>>},
                added \in [1..MaxAdded -> AddedChoices] :
                LET tj == Descriptor(Stage("Lowercase"), Stage("BertPreTokenizer"), "WordPiece",
                                     UnkToken, added)
                IN rdIn = [config |-> config, tj |-> tj, text |-> text,
                           tok |-> NewFromContent(config, tj)]

NextReadOnly ==
    \/ IterStart
    \/ IterOpenShard
    \/ IterReadNext
    \/ CallGetTensor
    \/ CallListTensorNames
    \/ CallGetTensorMetadata
    \/ CallEncode
    \/ CallEncodeWithSpans
    \/ CallDecode
    \/ CallSpecialTokenID
    \/ CallAddedTokensList

SpecReadOnly == InitReadOnly /\ [][NextReadOnly]_vars

\* ------------------------------------------- tokenizers: one word
\* The runes of the words: a, e-acute (two bytes) and b, which the vocabulary
\* does not hold.
WordRunes == {97, 233, 98}

\* tokenizeWordWithSpans on the word drawn, which starts at a byte offset of the
\* normalized text.
CallTokenizeWord ==
    /\ impl = "hftokenizer"
    /\ rdIn.tok # Nil
    /\ \E start \in 0..1 :
          LET r == tokenizeWordWithSpans(rdIn.tok,
                                         Word(rdIn.text, start, start + StrLen(rdIn.text)))
          IN rdRes' = [op |-> "tokenizeWord", start |-> start, IDs |-> r.IDs, Spans |-> r.Spans]
    /\ UNCHANGED <<rdIn, impl, repoVars, modelVars, iterVars, getVars, ggufVars>>

\* A WordPiece descriptor with a limit on the characters of a word (0 is the
\* default of 100) and a word, before NewFromContent.
InitWordPiece ==
    /\ NothingLoaded
    /\ rdRes = Nil
    /\ impl = "hftokenizer"
    /\ \E u \in {<<>>, UnkToken}, maxChars \in 0..MaxWordLen,
          word \in UNION {[1..n -> WordRunes] : n \in 1..(MaxWordLen + 1)} :
          rdIn = [config |-> NoConfig,
                  tj |-> [Descriptor(Stage(""), Stage(""), "WordPiece", u, <<>>)
                             EXCEPT !.Model.MaxInputCharsPerWord = maxChars],
                  text |-> word, tok |-> Nil]

NextWordPiece == CallNewFromContent \/ CallTokenizeWord

SpecWordPiece == InitWordPiece /\ [][NextWordPiece]_vars

\* ------------------------------------------- tokenizers: the BPE merge loop
\* The symbols bpeTokenizeWithSpans starts from: one per rune, with its rune
\* positions, the end-of-word suffix on the last.
bpeSymbols(t, word) ==
    [i \in 1..Len(word.text) |->
        [text |-> IF i = Len(word.text)
                  THEN <<word.text[i]>> \o t.tokenizer.Model.EndOfWordSuffix
                  ELSE <<word.text[i]>>,
         start |-> i - 1, end |-> i]]

\* Mutant of bpeMergeStep: the first pair that has a rank is merged.
bpeMergeStep_FirstRanked(mergeRanks, symbols) ==
    LET pair(i) == symbols[i].text \o <<32>> \o symbols[i + 1].text
        ranked == {i \in 1..(Len(symbols) - 1) : pair(i) \in DOMAIN mergeRanks}
    IN IF Len(symbols) <= 1 \/ ranked = {} THEN [merged |-> FALSE, symbols |-> symbols]
       ELSE LET bestIdx == CHOOSE i \in ranked : \A j \in ranked : i <= j
            IN [merged |-> TRUE,
                symbols |-> SubSeq(symbols, 1, bestIdx - 1)
                                \o <<[text |-> RemoveFirstSpace(pair(bestIdx)),
                                      start |-> symbols[bestIdx].start,
                                      end |-> symbols[bestIdx + 1].end]>>
                                \o SubSeq(symbols, bestIdx + 2, Len(symbols))]

\* One turn of the merge loop: the scan for the best pair and its merge, or the
\* break when no pair has a rank.
bpeMergeStep(mergeRanks, symbols) ==
    LET pair(i) == symbols[i].text \o <<32>> \o symbols[i + 1].text
        ranked == {i \in 1..(Len(symbols) - 1) : pair(i) \in DOMAIN mergeRanks}
    IN IF Len(symbols) <= 1 \/ ranked = {} THEN [merged |-> FALSE, symbols |-> symbols]
       ELSE LET bestIdx == CHOOSE i \in ranked :
                               \A j \in ranked :
                                   \/ mergeRanks[pair(i)] < mergeRanks[pair(j)]
                                   \/ (mergeRanks[pair(i)] = mergeRanks[pair(j)] /\ i <= j)
            IN [merged |-> TRUE,
                symbols |-> SubSeq(symbols, 1, bestIdx - 1)
                                \o <<[text |-> RemoveFirstSpace(pair(bestIdx)),
                                      start |-> symbols[bestIdx].start,
                                      end |-> symbols[bestIdx + 1].end]>>
                                \o SubSeq(symbols, bestIdx + 2, Len(symbols))]

\* The state of a bpeTokenizeWithSpans call inside its merge loop.
Merging(symbols, done) == [op |-> "bpeMerge", symbols |-> symbols, done |-> done]

\* Entry of bpeTokenizeWithSpans: the symbols of the word, or the id of a word
\* that is one symbol of the vocabulary.
BPEStart ==
    /\ impl = "hftokenizer"
    /\ rdIn.tok # Nil
    /\ rdIn.tj.Model.Type = "BPE"
    /\ rdRes = Nil
    /\ LET word == Word(rdIn.text, 0, StrLen(rdIn.text))
           symbols == bpeSymbols(rdIn.tok, word)
           vocab == rdIn.tok.tokenizer.Model.Vocab
       IN rdRes' = IF Len(symbols) = 1 /\ symbols[1].text \in DOMAIN vocab
                   THEN Called("bpe", <<vocab[symbols[1].text]>>,
                               <<TokenSpan(word.start, word.end)>>, <<>>)
                   ELSE Merging(symbols, FALSE)
    /\ UNCHANGED <<rdIn, impl, repoVars, modelVars, iterVars, getVars, ggufVars>>

\* One turn of the merge loop.
BPEMergeStep ==
    /\ impl = "hftokenizer"
    /\ rdRes # Nil
    /\ rdRes.op = "bpeMerge"
    /\ ~rdRes.done
    /\ LET r == bpeMergeStep(rdIn.tok.mergeRanks, rdRes.symbols)
       IN rdRes' = Merging(r.symbols, ~r.merged)
    /\ UNCHANGED <<rdIn, impl, repoVars, modelVars, iterVars, getVars, ggufVars>>

\* After the loop: the ids and the spans of the symbols.
BPEEmit ==
    /\ impl = "hftokenizer"
    /\ rdRes # Nil
    /\ rdRes.op = "bpeMerge"
    /\ rdRes.done
    /\ LET t == rdIn.tok
           vocab == t.tokenizer.Model.Vocab
           symbols == rdRes.symbols
           out[k \in 0..Len(symbols)] ==
               IF k = 0 THEN Tokens(<<>>, <<>>)
               ELSE LET sym == symbols[k]
                        span == TokenSpan(BytePos(rdIn.text, sym.start),
                                          BytePos(rdIn.text, sym.end))
                    IN IF sym.text \in DOMAIN vocab
                       THEN Tokens(Append(out[k - 1].IDs, vocab[sym.text]),
                                   Append(out[k - 1].Spans, span))
                       ELSE IF t.unkID >= 0
                       THEN Tokens(Append(out[k - 1].IDs, t.unkID),
                                   Append(out[k - 1].Spans, span))
                       ELSE out[k - 1]
       IN rdRes' = Called("bpe", out[Len(symbols)].IDs, out[Len(symbols)].Spans, <<>>)
    /\ UNCHANGED <<rdIn, impl, repoVars, modelVars, iterVars, getVars, ggufVars>>

\* The runes of the BPE words: a, G-dot, A-tilde and the copyright sign.
BPERunes == {97, 288, 195, 169}

\* The merge tables: the one of the descriptors above, and "a a", "G-dot a",
\* "aa a", where a merged symbol merges again and the best pair is not the first.
MergeTables == {TextMerges, <<<<97, 32, 97>>, <<288, 32, 97>>, <<97, 97, 32, 97>>>>}

\* A BPE descriptor and a word, before NewFromContent.
InitBPE ==
    /\ NothingLoaded
    /\ rdRes = Nil
    /\ impl = "hftokenizer"
    /\ \E u \in {<<>>, UnkToken}, merges \in MergeTables,
          word \in UNION {[1..n -> BPERunes] : n \in 1..(MaxWordLen + 1)} :
          rdIn = [config |-> NoConfig,
                  tj |-> [Descriptor(Stage(""), Stage(""), "BPE", u, <<>>)
                             EXCEPT !.Model.Merges = merges],
                  text |-> word, tok |-> Nil]

NextBPE == CallNewFromContent \/ BPEStart \/ BPEMergeStep \/ BPEEmit

SpecBPE == InitBPE /\ [][NextBPE]_vars

\* ------------------------------------------- tokenizers: decoding ids
\* The end-of-word suffix "</w>".
EndOfWord == <<60, 47, 119, 62>>

\* A vocabulary with tokens that end with the suffix: a, a</w>, b</w>, the
\* suffix alone, and ab.
SuffixVocab ==
    MapOf({<<<<97>>, 1>>, <<<<97>> \o EndOfWord, 2>>, <<<<98>> \o EndOfWord, 3>>,
           <<EndOfWord, 4>>, <<<<97, 98>>, 5>>})

\* Tokenizer.Decode on a list of ids, one of them (9) not in the vocabulary.
CallDecodeIDs ==
    /\ impl = "hftokenizer"
    /\ rdIn.tok # Nil
    /\ \E ids \in UNION {[1..n -> {1, 2, 3, 4, 5, 9}] : n \in 0..MaxIDs} :
          rdRes' = Called("Decode", ids, <<>>, Decode(rdIn.tok, ids))
    /\ UNCHANGED <<rdIn, impl, repoVars, modelVars, iterVars, getVars, ggufVars>>

\* A BPE descriptor with the BPEDecoder, with and without an end-of-word suffix,
\* before NewFromContent.
InitDecode ==
    /\ NothingLoaded
    /\ rdRes = Nil
    /\ impl = "hftokenizer"
    /\ \E suffix \in {<<>>, EndOfWord} :
          rdIn = [config |-> NoConfig,
                  tj |-> [Descriptor(Stage(""), Stage(""), "BPE", <<>>, <<>>)
                             EXCEPT !.Model.Vocab = SuffixVocab,
                                    !.Model.EndOfWordSuffix = suffix,
                                    !.Decoder.Type = "BPEDecoder"],
                  text |-> <<>>, tok |-> Nil]

NextDecode == CallNewFromContent \/ CallDecodeIDs

SpecDecode == InitDecode /\ [][NextDecode]_vars

\* ------------------------------------------- SentencePiece: byte fallback
\* The piece of a byte of the byte fallback: "<0xC3>", "<0xA9>".
BytePiece(b) == IF b = 195 THEN <<60, 48, 120, 67, 51, 62>> ELSE <<60, 48, 120, 65, 57, 62>>

\* The pieces of a processor that knows a and the space, and falls back to one
\* piece per byte for e-acute: a space becomes the U+2581 that opens the next
\* piece (merged) or a piece of its own (~merged).
SPFallbackPieces(text, merged) ==
    LET id(piece) == StrLen(piece) + (piece[Len(piece)] % 7)
        st[k \in 0..Len(text)] ==
            IF k = 0 THEN [out |-> <<>>, lead |-> <<>>]
            ELSE IF text[k] = 32
                 THEN [out |-> IF merged THEN st[k - 1].out \o (IF st[k - 1].lead = <<>> THEN <<>>
                                                                ELSE <<st[k - 1].lead>>)
                               ELSE st[k - 1].out \o <<<<9601>>>>,
                       lead |-> IF merged THEN <<9601>> ELSE <<>>]
                 ELSE IF text[k] = 233
                 THEN [out |-> st[k - 1].out
                                   \o (IF st[k - 1].lead = <<>> THEN <<>> ELSE <<st[k - 1].lead>>)
                                   \o <<BytePiece(195), BytePiece(169)>>,
                       lead |-> <<>>]
                 ELSE [out |-> Append(st[k - 1].out, st[k - 1].lead \o <<text[k]>>),
                       lead |-> <<>>]
        pieces == st[Len(text)].out
                      \o (IF st[Len(text)].lead = <<>> THEN <<>> ELSE <<st[Len(text)].lead>>)
    IN [i \in 1..Len(pieces) |-> [ID |-> id(pieces[i]), Text |-> pieces[i]]]

\* A SentencePiece tokenizer whose processor gives the pieces above for the text.
InitSP ==
    /\ NothingLoaded
    /\ rdRes = Nil
    /\ impl = "sentencepiece"
    /\ \E text \in UNION {[1..n -> {97, 32, 233}] : n \in 0..(MaxText + 1)}, merged \in BOOLEAN :
          rdIn = [config |-> NoConfig, tj |-> Nil, text |-> text,
                  tok |-> [Encode |-> MapOf({<<text, SPFallbackPieces(text, merged)>>}),
                           Info |-> SPInfo]]

NextSP == SPCallEncodeWithSpans \/ SPCallEncode

SpecSP == InitSP /\ [][NextSP]_vars

\* ------------------------------------------------------------- properties
Sum2(f) == f[Shard1] + f[Shard2]

YieldedNames == {yielded[i].name : i \in DOMAIN yielded}

FullIteration == pc = "done" /\ ~stopped

\* The names the index declares in a shard whose header lacks them, the
\* shard itself being readable.
InconsistentNames ==
    IF Index = Nil THEN {}
    ELSE {n \in DOMAIN Index.WeightMap :
            /\ NewMMapReader(Index.WeightMap[n]).err = NoErr
            /\ n \notin DOMAIN NewMMapReader(Index.WeightMap[n]).reader.Header.Tensors}

\* C1: the tensors IterTensors yields are grouped by shard (the yields of one
\* shard are consecutive) and, within a shard, in ascending data_offsets[0].
C1_GroupedAndAscending ==
    /\ \A i, j, k \in DOMAIN yielded :
          (i < j /\ j < k /\ yielded[i].file = yielded[k].file) => yielded[j].file = yielded[i].file
    /\ \A i, j \in DOMAIN yielded :
          (i < j /\ yielded[i].file = yielded[j].file) => yielded[i].offset <= yielded[j].offset

C1_Witness ==
    /\ FullIteration
    /\ iterErr = NoErr
    /\ Len(yielded) = 3
    /\ \E i \in 1..2 : yielded[i].file # yielded[i + 1].file
    /\ \E i \in 1..2 : yielded[i].file = yielded[i + 1].file /\ yielded[i].offset < yielded[i + 1].offset

\* C3: in one IterTensors iteration each shard's mmap is opened at most once
\* and at most one mmap of the iterator is open at any point.
C3_OneMMapAtATime ==
    /\ \A f \in Shards : openCount[f] <= 1
    /\ Sum2(iterOpen) <= 1

C3_Witness ==
    /\ FullIteration
    /\ iterErr = NoErr
    /\ \A f \in Shards : openCount[f] = 1

\* C4: when the index assigns a name to a shard whose header lacks it, the
\* operation that reaches the tensor fails: GetTensor of that name, and a
\* full IterTensors (which processes every shard), end with an error.
C4_InconsistentIndexFails ==
    /\ (FullIteration /\ InconsistentNames # {}) => iterErr # NoErr
    /\ (getRes # Nil /\ getRes.name \in InconsistentNames) => getRes.err = "tensor_not_found"

\* C5: a full IterTensors iteration that reports no error yields every name
\* of the index exactly once.
C5_YieldsEveryNameOnce ==
    (FullIteration /\ iterErr = NoErr) =>
        /\ YieldedNames = DOMAIN Index.WeightMap
        /\ Len(yielded) = Cardinality(DOMAIN Index.WeightMap)


\* The tensor under test, when the file parses and holds it.
RdParsed == rdIn # Nil /\ parseHeader(rdIn.file).err = NoErr /\ rdIn.name \in DOMAIN rdIn.file.tensors

RdMeta == rdIn.file.tensors[rdIn.name]

RdSpan == RdMeta.DataOffsets[2] - RdMeta.DataOffsets[1]

\* data_offset = 8 + H, H the little-endian u64 at the head of the file.
RdDataOffset == 8 + LEUint64(rdIn.file.sizeBytes)

\* A valid file: known dtype, the span equal to dtype size times element
\* count, and the data range inside the file.
RdValid ==
    /\ RdParsed
    /\ RdMeta.Dtype \in DTypeNames
    /\ RdSpan = Product(RdMeta.Shape) * DTypeSize(RdMeta.Dtype)
    /\ RdDataOffset + RdMeta.DataOffsets[2] <= FileLen(rdIn.file)

\* C6: for a tensor of a valid file ReadTensor returns exactly
\* data_offsets[1] - data_offsets[0] bytes, a verbatim copy of the file bytes
\* at [data_offset + start, data_offset + end), data_offset = 8 + H.
C6_VerbatimCopy ==
    (rdRes # Nil /\ RdValid) =>
        /\ rdRes.err = NoErr
        /\ Len(rdRes.bytes) = RdSpan
        /\ \A i \in 1..RdSpan :
              rdRes.bytes[i] = FileByteAt(rdIn.file, RdDataOffset + RdMeta.DataOffsets[1] + i - 1)

C6_Witness ==
    /\ rdRes # Nil
    /\ RdValid
    /\ RdSpan = 4
    /\ RdMeta.DataOffsets[1] = 2
    /\ rdRes.err = NoErr

\* C7: ReadTensor fails (SizeMismatch; any error is accepted here, the code's
\* errors being untyped) whenever dtype size times product(shape) differs
\* from the data_offsets span, and returns a tensor only when the buffer
\* length equals the span.
C7_SizeMismatchRejected ==
    (rdRes # Nil /\ RdParsed /\ RdMeta.Dtype \in DTypeNames) =>
        /\ (Product(RdMeta.Shape) * DTypeSize(RdMeta.Dtype) # RdSpan => rdRes.err # NoErr)
        /\ (rdRes.err = NoErr => Len(rdRes.bytes) = RdSpan)


\* The first listed file whose name ends in .safetensors.
RECURSIVE FirstSafetensors(_)
FirstSafetensors(names) ==
    IF names = <<>> THEN <<>>
    ELSE IF Ext(Head(names)) = ".safetensors" THEN Head(names)
    ELSE FirstSafetensors(Tail(names))

\* C8: without an index file, Load takes the first listed .safetensors file
\* and synthesizes a weight_map mapping every tensor of its header to that
\* file's name (the index codomain is that one file).
C8_SingleFileWeightMap ==
    (loadErr = NoErr /\ ~DetectShardedModel(listing).isSharded) =>
        /\ DOMAIN Index.WeightMap = DOMAIN repoFiles[FirstSafetensors(listing)].tensors
        /\ \A t \in DOMAIN Index.WeightMap : Index.WeightMap[t] = FirstSafetensors(listing)

\* C2: whenever an IterTensors iteration has ended (exhaustion, early stop,
\* failed open or failed read), every mapping the iterator opened is closed,
\* in each of the three implementations.
C2_IteratorClosesMMaps ==
    pc = "done" => (\A f \in Shards : iterOpen[f] = 0) /\ ggOpen = 0

\* An iteration of package safetensor that the consumer stopped after a yield.
C2_Witness ==
    /\ impl = "safetensor"
    /\ pc = "done"
    /\ stopped
    /\ Sum2(openCount) > 0
    /\ Sum2(iterOpen) = 0

\* The stream position after the last tensor info of the file.
RawHeaderEnd == readTensorInfos(gg.tensors, readKeyValues(gg.kvs, 24, gg.len).pos, gg.len).pos

\* The alignment the file asks for: the general.alignment pair of an integer
\* type (the last one, when the key is repeated), else the default.
RequestedAlignment ==
    LET asked == {i \in DOMAIN gg.kvs :
                     /\ gg.kvs[i].Key = "general.alignment"
                     /\ gg.kvs[i].Value.type \in IntegerValueTypes
                     /\ gg.kvs[i].Value.num > 0}
    IN IF asked = {} THEN defaultAlignment
       ELSE gg.kvs[CHOOSE i \in asked : \A j \in asked : j <= i].Value.num

\* C9: after a successful Open, data_offset is a multiple of the alignment
\* and less than one alignment past the raw header end, the alignment being
\* the integer general.alignment pair of the file when present, else 32.
C9_DataOffsetAligned ==
    ggErr = NoErr =>
        /\ ggFile.dataOffset % RequestedAlignment = 0
        /\ ggFile.dataOffset >= RawHeaderEnd
        /\ ggFile.dataOffset - RawHeaderEnd < RequestedAlignment

\* The drawn tensor types that are neither native nor dequantizable.
NonDequantizable == {TensorTypeQ8_1, TensorTypeUnknown}

\* The file with every tensor's type replaced by F32.
AsNative(f) ==
    [f EXCEPT !.tensors = [i \in DOMAIN f.tensors |-> [f.tensors[i] EXCEPT !.Type = TensorTypeF32]]]

\* The last read went to a tensor of a non-dequantizable type, on a loaded
\* model and a reader that could be opened.
ReadOfNonDequantizable ==
    /\ ggRes # Nil
    /\ ggFile # Nil
    /\ ggRes.err # "not_loaded"
    /\ gg.mappable
    /\ ggRes.name \in DOMAIN ggFile.tensorByName
    /\ ggFile.TensorInfos[ggFile.tensorByName[ggRes.name]].Type \in NonDequantizable

\* The data of the tensor last read starts inside the file.
ReadStartsInFile ==
    ggFile.dataOffset + ggFile.TensorInfos[ggFile.tensorByName[ggRes.name]].Offset <= gg.len

\* Open does not look at tensor types: it ends as it does on the same file
\* with native types only.
ParseIgnoresTensorTypes == ggErr # Unset => ggErr = Open(AsNative(gg)).err

\* C10 as stated: a file with tensors of unknown or non-dequantizable type
\* parses, and every read of such a tensor (ReadTensor or ReadTensorRaw, at
\* an offset of the file) returns UnsupportedQuant and no data.
C10_EveryReadFails ==
    /\ ParseIgnoresTensorTypes
    /\ (ReadOfNonDequantizable /\ ReadStartsInFile) =>
          ggRes.err = "unsupported_quant" /\ ggRes.bytes = <<>>

\* C10, amended: such a file parses; every dequantizing read (ReadTensor, and
\* so GetTensor and IterTensors) of such a tensor returns UnsupportedQuant and
\* no data, and that error comes from nothing else; ReadTensorRaw never
\* returns it and hands out the tensor's raw bytes.
C10_DequantizingReadFails ==
    /\ ParseIgnoresTensorTypes
    /\ (ReadOfNonDequantizable /\ ggRes.op = "ReadTensor") =>
          ggRes.err = "unsupported_quant" /\ ggRes.bytes = <<>> /\ ggRes.elements = 0
    /\ (ggRes # Nil /\ ggRes.err = "unsupported_quant") =>
          ReadOfNonDequantizable /\ ggRes.op = "ReadTensor"
    /\ (impl = "gguf" /\ iterErr = "unsupported_quant") =>
          pc = "done" /\ queue # <<>> /\ Head(queue).Type \in NonDequantizable
    /\ (impl = "gguf" /\ ggFile # Nil) =>
          \A i \in DOMAIN yielded :
              ggFile.TensorInfos[ggFile.tensorByName[yielded[i].name]].Type \notin NonDequantizable
    /\ (ReadOfNonDequantizable /\ ggRes.op = "ReadTensorRaw") =>
          /\ ggRes.err # "unsupported_quant"
          /\ ggRes.err = NoErr =>
                Len(ggRes.bytes) = NumBytes(ggFile.TensorInfos[ggFile.tensorByName[ggRes.name]])

\* A parsed file whose non-dequantizable tensor was read with ReadTensor.
C10_Witness ==
    /\ ggErr = NoErr
    /\ ReadOfNonDequantizable
    /\ ggRes.op = "ReadTensor"
    /\ ggRes.err = "unsupported_quant"

\* C11: the element count reported for a shape with zero dimensions is 1, in
\* the safetensors TensorMetadata and in the GGUF TensorInfo.
C11_ZeroDimCountIsOne ==
    (impl = "shape" /\ rdRes # Nil /\ rdIn.Shape = <<>>) => rdRes.n = 1

DequantReturned == impl = "dequant" /\ ~rdRes.panicked /\ rdRes.k = DequantIterations(rdIn.Type)

\* C12: one call of a supported dequantizer on a block of TypeSize bytes never
\* indexes out of range, and when it returns it has written every output index
\* 0..BlockSize-1 exactly once: BlockSize writes, none elsewhere.
C12_BlockFullyWritten ==
    impl = "dequant" =>
        /\ ~rdRes.panicked
        /\ rdRes.written \subseteq 0..(BlockSize(rdIn.Type) - 1)
        /\ DequantReturned =>
              /\ rdRes.written = 0..(BlockSize(rdIn.Type) - 1)
              /\ rdRes.writes = BlockSize(rdIn.Type)

C12_Witness == DequantReturned /\ rdIn.Type = TensorTypeQ6_K /\ rdRes.writes = 256

EncodedWithSpans == impl = "hftokenizer" /\ rdRes # Nil /\ rdRes.op = "EncodeWithSpans"

\* C13: every span (a, b) EncodeWithSpans returns lies in the input:
\* 0 <= a <= b <= len(s), len(s) the byte length of the original text.
C13_SpansInBounds ==
    EncodedWithSpans =>
        \A i \in 1..Len(rdRes.Spans) :
            /\ 0 <= rdRes.Spans[i].Start
            /\ rdRes.Spans[i].Start <= rdRes.Spans[i].End
            /\ rdRes.Spans[i].End <= StrLen(rdIn.text)

\* C14: EncodeWithSpans returns as many spans as ids, for WordPiece, BPE and
\* Unigram models, with or without an unk token.
C14_OneSpanPerID == EncodedWithSpans => Len(rdRes.Spans) = Len(rdRes.IDs)

\* The bytes of the lowercased input.
LowerBytes(text) == Bytes([k \in 1..Len(text) |-> ToLower(text[k])])

\* The surface form of a WordPiece token, as bytes: the token without the
\* continuation prefix.
SurfaceBytes(token) ==
    Bytes(IF HasPrefix(token, DefaultPrefix) THEN SubSeq(token, 3, Len(token)) ELSE token)

\* sub occurs in s as a contiguous run.
Contained(sub, s) ==
    \E i \in 0..(Len(s) - Len(sub)) : SubSeq(s, i + 1, i + Len(sub)) = sub

\* C15: in a WordPiece pipeline with a Lowercase or BertNormalizer normalizer,
\* for every emitted id that is not unk (no token is added here) and whose span
\* (a, b) is a slice of the input, lower(s[a..b]) is contained in the token's
\* surface form.
C15_SpanSliceIsSurface ==
    (/\ EncodedWithSpans
     /\ rdIn.tj.Normalizer.Type \in {"Lowercase", "BertNormalizer"}
     /\ rdIn.tj.PreTokenizer.Type \in {"", "BertPreTokenizer"}
     /\ rdIn.tj.Model.Type = "WordPiece")
    => \A i \in 1..Len(rdRes.IDs) :
          LET a == rdRes.Spans[i].Start
              b == rdRes.Spans[i].End
          IN (/\ rdRes.IDs[i] # rdIn.tok.unkID
              /\ 0 <= a /\ a <= b /\ b <= StrLen(rdIn.text))
             => Contained(SubSeq(LowerBytes(rdIn.text), a + 1, b),
                          SurfaceBytes(rdIn.tok.idToToken[rdRes.IDs[i]]))

CalledEncode == impl \in {"hftokenizer", "sentencepiece"} /\ rdRes # Nil /\ rdRes.op = "Encode"

\* C16: Encode(text) returns exactly the ids of EncodeWithSpans(text), for the
\* tokenizer.json tokenizer and for the SentencePiece adapter.
C16_EncodeIsIDsOfSpans ==
    CalledEncode =>
        rdRes.IDs = IF impl = "hftokenizer" THEN EncodeWithSpans(rdIn.tok, rdIn.text).IDs
                    ELSE SPEncodeWithSpans(rdIn.tok, rdIn.text).IDs

C16_Witness ==
    /\ CalledEncode
    /\ impl = "hftokenizer"
    /\ rdIn.tj.Normalizer.Type = "Lowercase"
    /\ Len(rdRes.IDs) = 2

\* Every word of the list is split into pieces of the vocabulary: WordPiece
\* neither replaces it by unk nor drops it.
EveryWordDecomposes ==
    \A k \in 1..Len(rdIn.words) :
        LET w == rdIn.words[k]
            r == wordPieceTokenizeWithSpans(rdIn.tok, Word(w, 0, StrLen(w)))
        IN r.IDs # <<>> /\ \A i \in 1..Len(r.IDs) : r.IDs[i] # rdIn.tok.unkID

DecodedWords == impl = "hftokenizer" /\ rdRes # Nil /\ rdRes.op = "Decode"

\* C17: on a WordPiece tokenizer, when every word of a list decomposes into
\* pieces of the vocabulary, decoding the encoding of the words joined by single
\* spaces gives the joined words back.
C17_DecodeOfEncode == (DecodedWords /\ EveryWordDecomposes) => rdRes.Text = rdIn.text

C17_Witness ==
    /\ DecodedWords
    /\ rdIn.words = <<<<97, 233>>, <<97>>>>
    /\ rdRes.IDs = <<1, 4, 1>>
    /\ rdRes.Text = rdIn.text

\* C18: after construction no two distinct ids of the id-to-token table map to
\* the same token string.
C18_IDToTokenInjective ==
    (impl = "hftokenizer" /\ rdIn.tok # Nil) =>
        \A i, j \in DOMAIN rdIn.tok.idToToken :
            i # j => rdIn.tok.idToToken[i] # rdIn.tok.idToToken[j]

\* The id a slot holds, or -1: the slot itself, then CLS for BOS and SEP for EOS.
SlotID(token) ==
    LET t == rdIn.tok
        first(a, b) == IF a >= 0 THEN a ELSE b
    IN IF impl = "hftokenizer"
       THEN CASE token = "TokUnknown" -> t.unkID
              [] token = "TokPad" -> t.padID
              [] token = "TokBeginningOfSentence" -> first(t.bosID, t.clsID)
              [] token = "TokEndOfSentence" -> first(t.eosID, t.sepID)
              [] token = "TokMask" -> t.maskID
              [] token = "TokClassification" -> t.clsID
       ELSE CASE token = "TokUnknown" -> t.Info.UnknownID
              [] token = "TokPad" -> t.Info.PadID
              [] token = "TokBeginningOfSentence" -> t.Info.BeginningOfSentenceID
              [] token = "TokEndOfSentence" -> t.Info.EndOfSentenceID
              [] OTHER -> -1

CalledSpecialTokenID ==
    impl \in {"hftokenizer", "sentencepiece"} /\ rdRes # Nil /\ rdRes.op = "SpecialTokenID"

\* C19: SpecialTokenID returns the id of the slot (CLS for a missing BOS, SEP for
\* a missing EOS) with no error, and fails when neither the slot nor its fallback
\* holds an id, for the tokenizer.json tokenizer and the SentencePiece adapter.
C19_SlotOrNotConfigured ==
    CalledSpecialTokenID =>
        IF SlotID(rdRes.token) >= 0
        THEN rdRes.err = NoErr /\ rdRes.id = SlotID(rdRes.token)
        ELSE rdRes.err # NoErr

\* The same for the tokenizer.json tokenizer alone.
HFSlotOrNotConfigured == impl = "hftokenizer" => C19_SlotOrNotConfigured

\* The state of the Model and of the Tokenizer.
ModelState == <<Index, IndexFile, Headers>>

TokenizerState == IF rdIn = Nil THEN Nil ELSE rdIn.tok

\* The result the last call left is the one the call gives on the model or the
\* tokenizer alone, wherever the other calls are.
ResultOfCallAlone ==
    /\ (getRes # Nil /\ getRes.op = "GetTensor") =>
          LET g == GetTensorResult(getRes.name)
          IN getRes.err = g.err /\ getRes.bytes = g.bytes
    /\ (getRes # Nil /\ getRes.op = "ListTensorNames") => getRes.names \in ListTensorNames
    /\ (getRes # Nil /\ getRes.op = "GetTensorMetadata") =>
          LET r == GetTensorMetadata(getRes.name)
          IN getRes.err = r.err /\ getRes.meta = r.meta
    /\ (rdRes # Nil /\ rdRes.op = "Encode") => rdRes.IDs = Encode(rdIn.tok, rdIn.text)
    /\ (rdRes # Nil /\ rdRes.op = "EncodeWithSpans") =>
          LET r == EncodeWithSpans(rdIn.tok, rdIn.text)
          IN rdRes.IDs = r.IDs /\ rdRes.Spans = r.Spans
    /\ (rdRes # Nil /\ rdRes.op = "Decode") => rdRes.Text = Decode(rdIn.tok, rdRes.IDs)
    /\ (rdRes # Nil /\ rdRes.op = "SpecialTokenID") =>
          LET r == SpecialTokenID(rdIn.tok, rdRes.token)
          IN rdRes.id = r.id /\ rdRes.err = r.err
    /\ (rdRes # Nil /\ rdRes.op = "AddedTokensList") =>
          rdRes.result \in SortedByID(rdIn.tj.AddedTokens)

GetDuringIteration ==
    /\ impl = "safetensors"
    /\ pc = "read"
    /\ yielded # <<>>
    /\ getRes # Nil
    /\ getRes.op = "GetTensor"
    /\ getRes.err = NoErr

TokenizedWord == impl = "hftokenizer" /\ rdRes # Nil /\ rdRes.op = "tokenizeWord"

\* max_input_chars_per_word, 100 when the descriptor leaves it out.
CharLimit ==
    IF rdIn.tj.Model.MaxInputCharsPerWord = 0 THEN 100 ELSE rdIn.tj.Model.MaxInputCharsPerWord

\* The word of the call and the same tokenizer without a limit that matters.
CalledWord == Word(rdIn.text, rdRes.start, rdRes.start + StrLen(rdIn.text))

Unlimited == [rdIn.tok EXCEPT !.tokenizer.Model.MaxInputCharsPerWord = 100]

\* C21: with an unk id, a word of more code points than max_input_chars_per_word
\* is one unk over the whole word, and a word of at most that many code points
\* is what the greedy matching gives.
C21_UnkIffTooManyChars ==
    (TokenizedWord /\ rdIn.tok.unkID >= 0) =>
        IF Len(rdIn.text) > CharLimit
        THEN /\ rdRes.IDs = <<rdIn.tok.unkID>>
             /\ rdRes.Spans = <<TokenSpan(CalledWord.start, CalledWord.end)>>
        ELSE LET r == wordPieceTokenizeWithSpans(Unlimited, CalledWord)
             IN rdRes.IDs = r.IDs /\ rdRes.Spans = r.Spans

\* The same with the length of the word counted in bytes, as the code does.
UnkIffTooManyBytes ==
    (TokenizedWord /\ rdIn.tok.unkID >= 0) =>
        IF StrLen(rdIn.text) > CharLimit
        THEN /\ rdRes.IDs = <<rdIn.tok.unkID>>
             /\ rdRes.Spans = <<TokenSpan(CalledWord.start, CalledWord.end)>>
        ELSE LET r == wordPieceTokenizeWithSpans(Unlimited, CalledWord)
             IN rdRes.IDs = r.IDs /\ rdRes.Spans = r.Spans

\* The piece of the word from rune s to rune e, with the prefix when s > 0.
PieceAt(s, e) ==
    IF s > 0 THEN DefaultPrefix \o SubSeq(rdIn.text, s + 1, e) ELSE SubSeq(rdIn.text, s + 1, e)

\* The cuts of the word into pieces each of which is the longest piece of the
\* vocabulary at its start (at most one set of ends).
GreedyCuts ==
    LET L == Len(rdIn.text)
        vocab == rdIn.tj.Model.Vocab
        prev(c, e) == IF \E x \in c : x < e
                      THEN CHOOSE x \in c : x < e /\ \A y \in c : y < e => y <= x
                      ELSE 0
    IN {c \in SUBSET (1..L) :
           /\ L \in c
           /\ \A e \in c :
                 /\ PieceAt(prev(c, e), e) \in DOMAIN vocab
                 /\ \A f \in (e + 1)..L : PieceAt(prev(c, e), f) \notin DOMAIN vocab}

\* The ids of the pieces of a cut, from the left.
IDsOfCut(c) ==
    LET vocab == rdIn.tj.Model.Vocab
        ends == CHOOSE s \in [1..Cardinality(c) -> c] : \A i, j \in DOMAIN s : i < j => s[i] < s[j]
    IN [k \in 1..Cardinality(c) |-> vocab[PieceAt(IF k = 1 THEN 0 ELSE ends[k - 1], ends[k])]]

\* C22: a word of at most max_input_chars_per_word code points that can be cut
\* into longest pieces from the left gets the ids of these pieces.
C22_GreedyLongestMatch ==
    (TokenizedWord /\ Len(rdIn.text) <= CharLimit) =>
        \A c \in GreedyCuts : rdRes.IDs = IDsOfCut(c)

\* The same for the words the code lets through, of at most that many bytes.
GreedyWithinByteLimit ==
    (TokenizedWord /\ StrLen(rdIn.text) <= CharLimit) =>
        \A c \in GreedyCuts : rdRes.IDs = IDsOfCut(c)

\* A word of three pieces went through the matching.
GreedyThreePieces ==
    TokenizedWord /\ rdIn.text = <<97, 97, 233, 97>> /\ rdRes.IDs = <<11, 4, 2>>

InMergeLoop(r) == r # Nil /\ r.op = "bpeMerge"

\* The rank of a pair "a b": its position in the merge table, or -1.
RankInTable(a, b) ==
    LET table == rdIn.tj.Model.Merges
        p == a \o <<32>> \o b
    IN IF \E i \in 1..Len(table) : table[i] = p
       THEN (CHOOSE i \in 1..Len(table) : table[i] = p) - 1
       ELSE -1

\* The pair at i is the one to merge: it has a rank, no pair has a smaller one
\* and no earlier pair has the same.
BestPairAt(symbols, i) ==
    LET rank(k) == RankInTable(symbols[k].text, symbols[k + 1].text)
    IN /\ rank(i) >= 0
       /\ \A j \in 1..(Len(symbols) - 1) :
             rank(j) >= 0 => (rank(i) < rank(j) \/ (rank(i) = rank(j) /\ i <= j))

\* The symbols after the merge of the pair at i.
MergedAt(symbols, i) ==
    [k \in 1..(Len(symbols) - 1) |->
        IF k < i THEN symbols[k]
        ELSE IF k = i THEN [text |-> symbols[i].text \o symbols[i + 1].text,
                            start |-> symbols[i].start, end |-> symbols[i + 1].end]
        ELSE symbols[k + 1]]

\* A turn of the loop merges the best pair, or ends the loop when there is
\* one symbol or no pair with a rank.
TurnMergesBestPair ==
    (InMergeLoop(rdRes) /\ InMergeLoop(rdRes')) =>
        LET symbols == rdRes.symbols
            best == {i \in 1..(Len(symbols) - 1) : BestPairAt(symbols, i)}
        IN IF best = {}
           THEN rdRes'.done /\ rdRes'.symbols = symbols
           ELSE ~rdRes'.done /\ \E i \in best : rdRes'.symbols = MergedAt(symbols, i)

\* C23: every turn of the BPE loop merges the adjacent pair of the smallest rank
\* (the earliest on equal rank) into a symbol with the span (first.start,
\* second.end), and the loop stops when no adjacent pair is in the table.
C23_MergesSmallestRank == [][TurnMergesBestPair]_vars

\* The merge "a a" of rank 0 came before "G-dot a" of rank 1, and then "aa a".
C23_Witness ==
    /\ impl = "hftokenizer"
    /\ InMergeLoop(rdRes)
    /\ rdRes.done
    /\ rdIn.text = <<288, 97, 97, 97>>
    /\ rdRes.symbols = <<[text |-> <<288>>, start |-> 0, end |-> 1],
                         [text |-> <<97, 97, 97>>, start |-> 1, end |-> 4]>>

\* The turns of the loop give what bpeTokenizeWithSpans gives.
TurnsGiveTokenize ==
    (impl = "hftokenizer" /\ rdRes # Nil /\ rdRes.op = "bpe") =>
        LET r == bpeTokenizeWithSpans(rdIn.tok, Word(rdIn.text, 0, StrLen(rdIn.text)))
        IN rdRes.IDs = r.IDs /\ rdRes.Spans = r.Spans

DecodedIDs ==
    /\ impl = "hftokenizer"
    /\ rdRes # Nil
    /\ rdRes.op = "Decode"
    /\ rdIn.tj.Decoder.Type = "BPEDecoder"

\* The tokens of the ids decoded, the unknown ids left out.
DecodedTokens ==
    LET vocab == rdIn.tj.Model.Vocab
        known == SelectSeq(rdRes.IDs, LAMBDA id : \E tok \in DOMAIN vocab : vocab[tok] = id)
    IN [i \in 1..Len(known) |-> CHOOSE tok \in DOMAIN vocab : vocab[tok] = known[i]]

\* The tokens in a row, each token that ends with the suffix without it and
\* followed by a space (the last one only if lastToo).
SuffixesAsSpaces(tokens, suffix, lastToo) ==
    LET ends(i) == /\ suffix # <<>>
                   /\ Len(tokens[i]) >= Len(suffix)
                   /\ \A k \in 1..Len(suffix) :
                         tokens[i][Len(tokens[i]) - Len(suffix) + k] = suffix[k]
        piece(i) == IF ends(i)
                    THEN SubSeq(tokens[i], 1, Len(tokens[i]) - Len(suffix))
                             \o (IF lastToo \/ i < Len(tokens) THEN <<32>> ELSE <<>>)
                    ELSE tokens[i]
        RECURSIVE row(_)
        row(i) == IF i = 0 THEN <<>> ELSE row(i - 1) \o piece(i)
    IN row(Len(tokens))

\* C24 as stated: every token that ends with the suffix, the last included, is
\* decoded without the suffix and with a space in its place.
C24_SpaceAfterEverySuffix ==
    DecodedIDs =>
        rdRes.Text = SuffixesAsSpaces(DecodedTokens, rdIn.tj.Model.EndOfWordSuffix, TRUE)

\* C24 amended: every token that ends with the suffix is decoded without it,
\* and with a space in its place unless it is the last token.
C24_SpaceAfterSuffixButLast ==
    DecodedIDs =>
        rdRes.Text = SuffixesAsSpaces(DecodedTokens, rdIn.tj.Model.EndOfWordSuffix, FALSE)

C24_Witness ==
    /\ DecodedIDs
    /\ rdIn.tj.Model.EndOfWordSuffix = EndOfWord
    /\ rdRes.IDs = <<2, 1, 3>>
    /\ rdRes.Text = <<97, 32, 97, 98>>

\* The cursor at piece i of the last EncodeWithSpans: the end of the span
\* before it, moved over the whitespace that follows when the piece starts with
\* U+2581.
CursorAt(i) ==
    LET text == Bytes(rdIn.text)
        piece == rdIn.tok.Encode[rdIn.text][i].Text
        prev == IF i = 1 THEN 0 ELSE rdRes.Spans[i - 1].End
        RECURSIVE over(_)
        over(pos) == IF pos < Len(text) /\ text[pos + 1] \in {32, 9, 10, 13}
                     THEN over(pos + 1) ELSE pos
    IN IF piece # <<>> /\ piece[1] = 9601 THEN over(prev) ELSE prev

\* C25: a piece that is U+2581 alone gets the span (cursor-1, cursor) when the
\* text has a space at cursor-1, and (cursor, cursor) otherwise.
C25_PureSpaceSpan ==
    (impl = "sentencepiece" /\ rdRes # Nil /\ rdRes.op = "EncodeWithSpans") =>
        \A i \in 1..Len(rdRes.Spans) :
            rdIn.tok.Encode[rdIn.text][i].Text = <<9601>> =>
                LET text == Bytes(rdIn.text)
                    cursor == CursorAt(i)
                IN rdRes.Spans[i] = IF cursor > 0 /\ text[cursor] \in {32, 9, 10, 13}
                                    THEN TokenSpan(cursor - 1, cursor)
                                    ELSE TokenSpan(cursor, cursor)

\* A pure-space piece whose span is the space before the cursor.
PureSpaceOverSpace ==
    /\ impl = "sentencepiece"
    /\ rdRes # Nil
    /\ rdRes.op = "EncodeWithSpans"
    /\ rdIn.text = <<97, 32, 97>>
    /\ rdRes.Spans = <<TokenSpan(0, 1), TokenSpan(1, 2), TokenSpan(2, 3)>>

\* The file is whole and well-formed: magic and version, no value of an unknown
\* type, and no byte of the header missing.
WellFormedGGUF ==
    /\ gg.magic = ggufMagic
    /\ gg.Version >= minSupportedVersion
    /\ gg.len >= HeaderSize(gg.kvs, gg.tensors)
    /\ \A i \in DOMAIN gg.kvs :
          gg.kvs[i].Value.type \in NumericValueTypes
              \cup {valueTypeBool, valueTypeString, valueTypeArray}

HasNestedArray ==
    \E i \in DOMAIN gg.kvs :
        gg.kvs[i].Value.type = valueTypeArray /\ gg.kvs[i].Value.elemType = valueTypeArray

\* C26: Open succeeds on a well-formed file with a key-value array whose
\* elements are arrays.
C26_NestedArrayParsed ==
    (impl = "gguf" /\ ggErr # Unset /\ WellFormedGGUF /\ HasNestedArray) => ggErr = NoErr

\* Open succeeds on the well-formed files without a nested array.
FlatArraysParsed ==
    (impl = "gguf" /\ ggErr # Unset /\ WellFormedGGUF /\ ~HasNestedArray) => ggErr = NoErr

\* C27: after any sequence of single-tensor reads no mapping they opened is
\* left open.
C27_SingleReadsCloseMMaps ==
    /\ impl = "safetensors" => \A f \in Shards : getOpen[f] = 0
    /\ (impl = "gguf" /\ pc \in {"idle", "done"}) => ggOpen = 0

\* The same for the reads of package gguf alone.
GGUFSingleReadsCloseMMaps == (impl = "gguf" /\ pc \in {"idle", "done"}) => ggOpen = 0

\* C28: on a model that was never loaded GetTensor returns an error, and does
\* not crash on the nil index.
C28_UnloadedReadFails ==
    (impl = "safetensors" /\ NotLoaded /\ getRes # Nil) =>
        getRes.err \notin {NoErr, "panic_nil_index"}

\* The tensor info of the last GGUF read, and the bytes of its data range: the
\* tensor memory of a native type, NumBytes of a quantized one.
ReadInfo == ggFile.TensorInfos[ggFile.tensorByName[ggRes.name]]

DataRangeBytes ==
    IF IsQuantized(ReadInfo.Type) THEN NumBytes(ReadInfo)
    ELSE Product(GoMLXShape(ReadInfo)) * GoMLXDTypeSize(ReadInfo.Type)

ReadTensorReturned ==
    /\ impl = "gguf"
    /\ ggRes # Nil
    /\ ggRes.op = "ReadTensor"
    /\ ggRes.err = NoErr

\* C29: a ReadTensor that returns a tensor found every byte of the tensor's
\* data range in the file.
C29_ShortFileIsAnError ==
    ReadTensorReturned => ggFile.dataOffset + ReadInfo.Offset + DataRangeBytes <= gg.len

\* C30: a quantized tensor that ReadTensor returns has a whole number of
\* blocks and every element of it was written by the dequantizer.
C30_WholeBlocksOnly ==
    (ReadTensorReturned /\ IsQuantized(ReadInfo.Type)) =>
        /\ NumElements(ReadInfo) % BlockSize(ReadInfo.Type) = 0
        /\ ggRes.dequantized = ggRes.elements

\* A quantized tensor of a whole number of blocks, all in the file, comes back
\* with every element dequantized.
WholeBlocksDequantized ==
    (/\ ReadTensorReturned
     /\ IsQuantized(ReadInfo.Type)
     /\ NumElements(ReadInfo) % BlockSize(ReadInfo.Type) = 0) =>
        ggRes.dequantized = ggRes.elements

====
